---- MODULE Spec2Model ----
(***************************************************************************)
(* A model of the RAG backend: the ingestion pipeline (parser, splitter,   *)
(* vectorizer workers on a message bus, with delete and retry), the        *)
(* session history writer, the cache window, and the streaming chat        *)
(* emitter.  Every call of a handler that reaches a store (relational,     *)
(* vector, inverted index, cache, bus) is one atomic step, and handlers    *)
(* interleave between such steps.                                          *)
(***************************************************************************)
EXTENDS Integers, Sequences, FiniteSets

\* ------------------------------------------------------------------ bounds
MaxChunks == 2      \* the largest number of chunks the splitter yields
MaxRedeliver == 1   \* how many times the bus delivers a message again
MaxRetry == 1       \* how many times retry_document is called
NumRequests == 2    \* chat requests on the one session
MaxLines == 3       \* lines of one provider stream
MaxContexts == 2    \* retrieved contexts of one streaming chat
MaxSessions == 2    \* session ids there are
MaxCalls == 2       \* calls of the session API
NumUsers == 2       \* users
NumRobots == 3      \* robots
NumChunkIds == 3    \* chunks the two stores hold
MaxLeg == 2         \* hits one store returns
MaxTopK == 2        \* the largest top_k of a robot
NumKbs == 2         \* knowledge bases
MaxRetrievals == 2  \* retrievals in one run
NumDocs == 2        \* documents the retrieved chunks are of
MaxRetrieved == 2   \* contexts one retrieval returns
MaxMeasured == 2    \* queries of one measured recall test
MaxQueries == 11    \* queries of one recall task
TickSeconds == 30   \* seconds between two readings of the clock
MaxTicks == 2       \* readings of the clock after the first
MaxRateRequests == 3  \* retrieval-test requests
SubSecond == 4      \* clock units in one second
MaxClock == 10      \* last reading of the authentication clock, in units
MaxGap == 2         \* units between two requests, at most
MaxTokens == 2      \* tokens issued to the user
NumArgs == 2        \* different arguments of a provider call
MaxFailoverCalls == 2  \* calls on the failover provider
MaxStreamChunks == 2   \* chunks one provider yields in a stream
MaxMinimaxCalls == 2   \* calls of MinimaxProvider.chat
MaxCompletionCalls == 2  \* calls of _call_openai_compatible
MaxRetryCalls == 3  \* calls of the retry endpoint
MaxKnowledges == 2  \* knowledge bases created
MaxChunkSize == 4   \* the largest chunk_size of the splitter
MaxSepLen == 1      \* the longest separator
MaxPieces == 3      \* pieces the merge step is given
MaxCacheSessions == 2  \* sessions of the session cache
MaxCacheRequests == 4  \* requests begun on the session cache
MaxUsage == 1       \* tokens the provider counts for the prompt, for the completion
MaxRows == 22       \* history rows of the session of the cache window
MaxDocChunks == 2   \* chunks of a document of the knowledge base with counters
MaxRecallTasks == 1 \* recall tasks started

\* settings.MAX_CONTEXT_TURNS
MAX_CONTEXT_TURNS == 10

\* the k of reciprocal rank fusion in _merge_results
RRF_K == 60

\* run_recall_task writes the progress after every tenth query
PROGRESS_EVERY == 10

\* check_rate_limit: the window in seconds and the requests accepted within it
RATE_WINDOW == 60
RATE_LIMIT == 30

\* MinimaxProvider.chat: stop_after_attempt
STOP_AFTER_ATTEMPT == 3

\* _call_openai_compatible: max_retries
MAX_RETRIES == 3

\* KnowledgeCreate: the limits of chunk_size and of chunk_overlap
CHUNK_SIZE_GE == 100
CHUNK_SIZE_LE == 2000
CHUNK_OVERLAP_GE == 0
CHUNK_OVERLAP_LE == 500

\* settings.DEFAULT_CHUNK_OVERLAP
DEFAULT_CHUNK_OVERLAP == 50

\* ------------------------------------------------------------------ state
VARIABLES
  \* relational store: the one Document row
  doc_exists, doc_status, chunk_count,
  \* what the uploaded file splits into (0: the splitter yields nothing)
  file_chunks,
  \* vector store: number of entities per chunk index; inverted index: set of chunk indices
  milvus, es,
  \* message bus: pending messages per topic, and whether one was ever published
  topic, published, redelivered,
  \* handler positions
  ppc, spc, vpc, dpc,
  uploaded, retries,
  \* relational store: the ChatHistory rows of the one session, Session.message_count
  chat_history, message_count,
  \* cache: the message list of the session (newest first), the context hash's
  \* turn_count, the session lock key
  cache_messages, turn_count, session_lock,
  \* chat requests: endpoint, position, the values a request has read, and the
  \* answer and token usage of its response
  rkind, rpc, r_max_seq, r_llen, r_answer, r_token_usage,
  \* one streaming response: the retrieved contexts, the provider's HTTP status and
  \* lines, the generator's position, the SSE events emitted, the generator's locals
  n_contexts, response_ok, provider_lines, stream_pc, pos, events,
  has_reasoning_started, has_text_started, full_answer, full_reasoning_content,
  \* sessions: the Session rows by session id, the number of ChatHistory rows and of
  \* cached window messages of each, the owner of each robot, the last call of the
  \* session API with its answer, and the number of calls so far
  sessions, history_rows, context_len, robot_owner, response, n_calls,
  \* one hybrid retrieval: what the vector store and the inverted index rank for the
  \* query, the robot's top_k and enable_rerank, the chunks get_chunk_by_id does not
  \* find, the two legs' results, the top_k each leg was asked for, the contexts
  \* returned, and the position in hybrid_retrieve
  vector_hits, keyword_hits, top_k, enable_rerank, es_missing,
  vector_results, keyword_results, leg_top_k, contexts, fuse_pc,
  \* knowledge bases: Knowledge.status by id, the knowledge bases linked to the one
  \* robot, the knowledge_ids of the last retrieval, the endpoint it was made for,
  \* and the number of retrievals so far
  kb_status, robot_knowledge, searched, retrieval_by, n_retrievals,
  \* recall metrics: the number of queries, the contexts retrieved for the last query
  \* and its expected document ids, its result item, the locals hit_count and the
  \* number of queries measured, the summary's top_n_hit_rate, and the position
  queries_total, retrieved, expected_ids, item, hit_count, n_measured, summary,
  metrics_pc,
  \* one recall task: the number of its queries, the task key of the cache (whether
  \* it is there, its status and progress), the worker's query count and position,
  \* what the get of the update under way found, whether the key was deleted while
  \* the task was running, and whether a write since then found the key missing
  rq_total, task_exists, task_status, task_progress, rq_i, recall_pc, upd_found,
  cancelled, missed,
  \* the rest of the task record (the queries its results cover, whether it holds a
  \* summary and an error), whether start_test's set_recall_task stored the record,
  \* and whether the rag.recall.test message of the task reached the bus
  task_results, task_summary, task_error, task_written, recall_published,
  \* the rate limiter of retrieval-test: the clock, the kept request times per user,
  \* every accepted request time per user, the answer to the last request, and the
  \* number of requests made
  rl_now, rate_limiter, rl_accepted, rl_response, rl_count,
  \* authentication of one enabled user: the clock, the user's password_changed_at, the
  \* tokens issued (their iat, and whether the password was changed since), and the
  \* answer to the last request
  auth_clock, password_changed_at, tokens, auth_response,
  \* one FailoverProvider: whether its module is loaded, the position in the call under
  \* way, the call, the calls made on the primary and on the fallback, whether the
  \* primary raised, the chunks each of them yielded, the chunks the consumer received,
  \* where the result came from, and the number of calls
  fo_module, fo_pc, fo_call, primary_calls, fallback_calls, primary_raised,
  primary_sent, fallback_sent, received, fo_result, fo_count,
  \* one MinimaxProvider.chat: its position, what each attempt came to, the response
  \* returned, whether chat raised, and the number of calls
  mm_pc, mm_outcomes, mm_response, mm_raised, mm_count,
  \* one _call_openai_compatible: its position, what each HTTP attempt came to, and the
  \* number of calls
  oa_pc, oa_attempts, oa_count,
  \* the retry of one document: its row (the fields of the message, status, error_msg),
  \* the doc.upload messages on the bus, the reply to the last retry, and the number of
  \* retries
  rd_row, rd_status, rd_error_msg, rd_upload, rd_reply, rd_count,
  \* knowledge base creation: the chunk_size and chunk_overlap of the knowledge bases
  \* there are, the status of the last create request, and the values the splitter last
  \* ran with
  knowledges, kn_status, split_with,
  \* one _merge_splits: the chunk size, the overlap, the length of the separator, the
  \* lengths of the pieces still to come, the lengths of the pieces of the current
  \* chunk and its running length, the lengths of the chunks made, the lengths of the
  \* text carried over at each chunk, and the position
  ms_chunk_size, ms_chunk_overlap, ms_separator_len, ms_splits, current_chunk,
  current_length, final_chunks, carried, ms_pc,
  \* the session cache: the session rows, whether a session has history rows, whether
  \* its context hash and its message list exist in the cache, each user's active-set,
  \* the request in progress on a session, and the number of requests begun
  cache_sessions, has_history, context_key, messages_key, active_sessions, in_progress,
  cache_count,
  \* the cache window of one session: the number of its history rows, the message list
  \* of the cache (head first), the turn_count of the context hash, and whether the
  \* context was made fresh or rebuilt from the history
  window_rows, window_list, window_turn_count, window_origin,
  \* the counters of one knowledge base: the committed Document rows, the counters of
  \* the Knowledge row, the position of the vectorizer and of the deletion of each
  \* document, the counts each of them has read, and the number of chunks the
  \* vectorizer holds
  documents, knowledge_counts, vectorizer_pc, deleter_pc, counts_read, chunks_len,
  \* who may read which knowledge base: Knowledge.user_id, the links of each robot, the
  \* recall tasks of the cache (the caller's id, the knowledge_ids of the request, the
  \* knowledge bases of the stored results), and the last answer that carried chunks
  \* (to whom, whose robot or task it read, from which endpoint, of which knowledge
  \* bases)
  knowledge_user_id, robot_knowledge_ids, recall_tasks, answer

ingestVars == <<doc_exists, doc_status, chunk_count, file_chunks, milvus, es,
                topic, published, redelivered, ppc, spc, vpc, dpc, uploaded, retries>>

chatVars == <<chat_history, message_count, cache_messages, turn_count, session_lock,
              rkind, rpc, r_max_seq, r_llen, r_answer, r_token_usage>>

streamVars == <<n_contexts, response_ok, provider_lines, stream_pc, pos, events,
                has_reasoning_started, has_text_started, full_answer,
                full_reasoning_content>>

sessVars == <<sessions, history_rows, context_len, robot_owner, response, n_calls>>

fuseVars == <<vector_hits, keyword_hits, top_k, enable_rerank, es_missing,
              vector_results, keyword_results, leg_top_k, contexts, fuse_pc>>

kbVars == <<kb_status, robot_knowledge, searched, retrieval_by, n_retrievals>>

metricsVars == <<queries_total, retrieved, expected_ids, item, hit_count, n_measured,
                 summary, metrics_pc>>

recallVars == <<rq_total, task_exists, task_status, task_progress, rq_i, recall_pc,
                upd_found, cancelled, missed, task_results, task_summary, task_error,
                task_written, recall_published>>

rateVars == <<rl_now, rate_limiter, rl_accepted, rl_response, rl_count>>

authVars == <<auth_clock, password_changed_at, tokens, auth_response>>

failoverVars == <<fo_module, fo_pc, fo_call, primary_calls, fallback_calls,
                  primary_raised, primary_sent, fallback_sent, received, fo_result,
                  fo_count>>

minimaxVars == <<mm_pc, mm_outcomes, mm_response, mm_raised, mm_count>>

openaiVars == <<oa_pc, oa_attempts, oa_count>>

retryVars == <<rd_row, rd_status, rd_error_msg, rd_upload, rd_reply, rd_count>>

knowledgeVars == <<knowledges, kn_status, split_with>>

splitterVars == <<ms_chunk_size, ms_chunk_overlap, ms_separator_len, ms_splits,
                  current_chunk, current_length, final_chunks, carried, ms_pc>>

cacheVars == <<cache_sessions, has_history, context_key, messages_key, active_sessions,
               in_progress, cache_count>>

windowVars == <<window_rows, window_list, window_turn_count, window_origin>>

countersVars == <<documents, knowledge_counts, vectorizer_pc, deleter_pc, counts_read,
                  chunks_len>>

accessVars == <<knowledge_user_id, robot_knowledge_ids, recall_tasks, answer>>

vars == <<ingestVars, chatVars, streamVars, sessVars, fuseVars, kbVars, metricsVars,
          recallVars, rateVars, authVars, failoverVars, minimaxVars, openaiVars,
          retryVars, knowledgeVars, splitterVars, cacheVars, windowVars, countersVars,
          accessVars>>

\* what the actions of one part leave alone
ingestFrame ==
  <<chatVars, streamVars, sessVars, fuseVars, kbVars, metricsVars, recallVars, rateVars,
    authVars, failoverVars, minimaxVars, openaiVars, retryVars, knowledgeVars,
    splitterVars, cacheVars, windowVars, countersVars, accessVars>>
chatFrame ==
  <<ingestVars, streamVars, sessVars, fuseVars, kbVars, metricsVars, recallVars,
    rateVars, authVars, failoverVars, minimaxVars, openaiVars, retryVars, knowledgeVars,
    splitterVars, cacheVars, windowVars, countersVars, accessVars>>
streamFrame ==
  <<ingestVars, chatVars, sessVars, fuseVars, kbVars, metricsVars, recallVars, rateVars,
    authVars, failoverVars, minimaxVars, openaiVars, retryVars, knowledgeVars,
    splitterVars, cacheVars, windowVars, countersVars, accessVars>>
sessFrame ==
  <<ingestVars, chatVars, streamVars, fuseVars, kbVars, metricsVars, recallVars,
    rateVars, authVars, failoverVars, minimaxVars, openaiVars, retryVars, knowledgeVars,
    splitterVars, cacheVars, windowVars, countersVars, accessVars>>
fuseFrame ==
  <<ingestVars, chatVars, streamVars, sessVars, kbVars, metricsVars, recallVars,
    rateVars, authVars, failoverVars, minimaxVars, openaiVars, retryVars, knowledgeVars,
    splitterVars, cacheVars, windowVars, countersVars, accessVars>>
kbFrame ==
  <<ingestVars, chatVars, streamVars, sessVars, fuseVars, metricsVars, recallVars,
    rateVars, authVars, failoverVars, minimaxVars, openaiVars, retryVars, knowledgeVars,
    splitterVars, cacheVars, windowVars, countersVars, accessVars>>
metricsFrame ==
  <<ingestVars, chatVars, streamVars, sessVars, fuseVars, kbVars, recallVars, rateVars,
    authVars, failoverVars, minimaxVars, openaiVars, retryVars, knowledgeVars,
    splitterVars, cacheVars, windowVars, countersVars, accessVars>>
recallFrame ==
  <<ingestVars, chatVars, streamVars, sessVars, fuseVars, kbVars, metricsVars, rateVars,
    authVars, failoverVars, minimaxVars, openaiVars, retryVars, knowledgeVars,
    splitterVars, cacheVars, windowVars, countersVars, accessVars>>
rateFrame ==
  <<ingestVars, chatVars, streamVars, sessVars, fuseVars, kbVars, metricsVars,
    recallVars, authVars, failoverVars, minimaxVars, openaiVars, retryVars,
    knowledgeVars, splitterVars, cacheVars, windowVars, countersVars, accessVars>>
authFrame ==
  <<ingestVars, chatVars, streamVars, sessVars, fuseVars, kbVars, metricsVars,
    recallVars, rateVars, failoverVars, minimaxVars, openaiVars, retryVars,
    knowledgeVars, splitterVars, cacheVars, windowVars, countersVars, accessVars>>
failoverFrame ==
  <<ingestVars, chatVars, streamVars, sessVars, fuseVars, kbVars, metricsVars,
    recallVars, rateVars, authVars, minimaxVars, openaiVars, retryVars, knowledgeVars,
    splitterVars, cacheVars, windowVars, countersVars, accessVars>>
minimaxFrame ==
  <<ingestVars, chatVars, streamVars, sessVars, fuseVars, kbVars, metricsVars,
    recallVars, rateVars, authVars, failoverVars, openaiVars, retryVars, knowledgeVars,
    splitterVars, cacheVars, windowVars, countersVars, accessVars>>
openaiFrame ==
  <<ingestVars, chatVars, streamVars, sessVars, fuseVars, kbVars, metricsVars,
    recallVars, rateVars, authVars, failoverVars, minimaxVars, retryVars, knowledgeVars,
    splitterVars, cacheVars, windowVars, countersVars, accessVars>>
retryFrame ==
  <<ingestVars, chatVars, streamVars, sessVars, fuseVars, kbVars, metricsVars,
    recallVars, rateVars, authVars, failoverVars, minimaxVars, openaiVars,
    knowledgeVars, splitterVars, cacheVars, windowVars, countersVars, accessVars>>
knowledgeFrame ==
  <<ingestVars, chatVars, streamVars, sessVars, fuseVars, kbVars, metricsVars,
    recallVars, rateVars, authVars, failoverVars, minimaxVars, openaiVars, retryVars,
    splitterVars, cacheVars, windowVars, countersVars, accessVars>>
splitterFrame ==
  <<ingestVars, chatVars, streamVars, sessVars, fuseVars, kbVars, metricsVars,
    recallVars, rateVars, authVars, failoverVars, minimaxVars, openaiVars, retryVars,
    knowledgeVars, cacheVars, windowVars, countersVars, accessVars>>
cacheFrame ==
  <<ingestVars, chatVars, streamVars, sessVars, fuseVars, kbVars, metricsVars,
    recallVars, rateVars, authVars, failoverVars, minimaxVars, openaiVars, retryVars,
    knowledgeVars, splitterVars, windowVars, countersVars, accessVars>>
windowFrame ==
  <<ingestVars, chatVars, streamVars, sessVars, fuseVars, kbVars, metricsVars,
    recallVars, rateVars, authVars, failoverVars, minimaxVars, openaiVars, retryVars,
    knowledgeVars, splitterVars, cacheVars, countersVars, accessVars>>
countersFrame ==
  <<ingestVars, chatVars, streamVars, sessVars, fuseVars, kbVars, metricsVars,
    recallVars, rateVars, authVars, failoverVars, minimaxVars, openaiVars, retryVars,
    knowledgeVars, splitterVars, cacheVars, windowVars, accessVars>>
accessFrame ==
  <<ingestVars, chatVars, streamVars, sessVars, fuseVars, kbVars, metricsVars,
    recallVars, rateVars, authVars, failoverVars, minimaxVars, openaiVars, retryVars,
    knowledgeVars, splitterVars, cacheVars, windowVars, countersVars>>

Topics == {"upload", "parsed", "chunks"}
ChunkIdx == 0 .. (MaxChunks - 1)

\* chunk_id = f"{doc_id}_{idx}" for idx in 0..N-1
ChunkIds(n) == 0 .. (n - 1)

\* ---------------------------------------------------------------- helpers
\* update(Document).where(Document.id == doc_id).values(status=...): no row, no effect
UpdateStatus(s) ==
  doc_status' = IF doc_exists THEN s ELSE doc_status

\* KafkaProducer.send: a failed send is logged and swallowed, the message is lost
KafkaSend(t, ok) ==
  /\ topic' = [topic EXCEPT ![t] = IF ok THEN @ + 1 ELSE @]
  /\ published' = [published EXCEPT ![t] = IF ok THEN TRUE ELSE @]

KafkaTake(t) ==
  /\ topic[t] > 0
  /\ topic' = [topic EXCEPT ![t] = @ - 1]

\* collection.insert: appends entities, a primary key already present is not replaced
MilvusInsert(n) ==
  [i \in ChunkIdx |-> IF i \in ChunkIds(n) THEN milvus[i] + 1 ELSE milvus[i]]

\* collection.delete("document_id == id")
MilvusDeleteByDocument == [i \in ChunkIdx |-> 0]

\* async_bulk of index actions keyed by _id = chunk_id: the written ones replace or add
EsIndex(written) == es \cup written

\* delete_by_query on document_id
EsDeleteByDocument == {}

MilvusIds == {i \in ChunkIdx : milvus[i] > 0}

StoresEmpty == MilvusIds = {} /\ es = {}

\* ------------------------------------------------------------- initial state
IngestInit ==
  /\ doc_exists = FALSE
  /\ doc_status = "none"
  /\ chunk_count = 0
  /\ file_chunks = 0
  /\ milvus = [i \in ChunkIdx |-> 0]
  /\ es = {}
  /\ topic = [t \in Topics |-> 0]
  /\ published = [t \in Topics |-> FALSE]
  /\ redelivered = 0
  /\ ppc = "idle" /\ spc = "idle" /\ vpc = "idle" /\ dpc = "idle"
  /\ uploaded = FALSE
  /\ retries = 0

\* ------------------------------------------------------------------ API
\* DocumentService.upload_document: the row is created, then the message published
upload_document ==
  /\ ~uploaded
  /\ uploaded' = TRUE
  /\ doc_exists' = TRUE
  /\ doc_status' = "uploading"
  /\ chunk_count' = 0
  /\ \E n \in 0 .. MaxChunks : file_chunks' = n
  /\ \E ok \in BOOLEAN : KafkaSend("upload", ok)
  /\ UNCHANGED <<milvus, es, redelivered, ppc, spc, vpc, dpc, retries>>
  /\ UNCHANGED ingestFrame

\* DocumentService.retry_document
retry_document ==
  /\ doc_exists
  /\ doc_status = "failed"
  /\ retries < MaxRetry
  /\ retries' = retries + 1
  /\ doc_status' = "uploading"
  /\ \E ok \in BOOLEAN : KafkaSend("upload", ok)
  /\ UNCHANGED <<doc_exists, chunk_count, file_chunks, milvus, es, redelivered,
                 ppc, spc, vpc, dpc, uploaded>>
  /\ UNCHANGED ingestFrame

\* at-least-once delivery: a message that was published is delivered again
Redeliver ==
  /\ redelivered < MaxRedeliver
  /\ \E t \in Topics :
       /\ published[t]
       /\ topic' = [topic EXCEPT ![t] = @ + 1]
  /\ redelivered' = redelivered + 1
  /\ UNCHANGED <<doc_exists, doc_status, chunk_count, file_chunks, milvus, es,
                 published, ppc, spc, vpc, dpc, uploaded, retries>>
  /\ UNCHANGED ingestFrame

\* ---------------------------------------------------------------- parser
\* process_upload: existence check, status=parsing
process_upload_begin ==
  /\ ppc = "idle"
  /\ KafkaTake("upload")
  /\ IF doc_exists
       THEN /\ doc_status' = "parsing"
            /\ ppc' = "parse"
       ELSE UNCHANGED <<doc_status, ppc>>
  /\ UNCHANGED <<doc_exists, chunk_count, file_chunks, milvus, es, published,
                 redelivered, spc, vpc, dpc, uploaded, retries>>
  /\ UNCHANGED ingestFrame

\* process_upload: parse_file, then publish doc.parsed; an exception or empty content fails
process_upload_parse ==
  /\ ppc = "parse"
  /\ \E parsed \in BOOLEAN :
       IF parsed
         THEN /\ \E ok \in BOOLEAN : KafkaSend("parsed", ok)
              /\ ppc' = "mark"
         ELSE /\ ppc' = "fail"
              /\ UNCHANGED <<topic, published>>
  /\ UNCHANGED <<doc_exists, doc_status, chunk_count, file_chunks, milvus, es,
                 redelivered, spc, vpc, dpc, uploaded, retries>>
  /\ UNCHANGED ingestFrame

\* process_upload: the second update, status=parsing, after the message was published
process_upload_mark ==
  /\ ppc = "mark"
  /\ UpdateStatus("parsing")
  /\ ppc' = "idle"
  /\ UNCHANGED <<doc_exists, chunk_count, file_chunks, milvus, es, topic, published,
                 redelivered, spc, vpc, dpc, uploaded, retries>>
  /\ UNCHANGED ingestFrame

\* process_upload: except Exception: status=failed
process_upload_fail ==
  /\ ppc = "fail"
  /\ UpdateStatus("failed")
  /\ ppc' = "idle"
  /\ UNCHANGED <<doc_exists, chunk_count, file_chunks, milvus, es, topic, published,
                 redelivered, spc, vpc, dpc, uploaded, retries>>
  /\ UNCHANGED ingestFrame

\* --------------------------------------------------------------- splitter
\* process_parsed: status=splitting (before the existence check)
process_parsed_begin ==
  /\ spc = "idle"
  /\ KafkaTake("parsed")
  /\ UpdateStatus("splitting")
  /\ spc' = "split"
  /\ UNCHANGED <<doc_exists, chunk_count, file_chunks, milvus, es, published,
                 redelivered, ppc, vpc, dpc, uploaded, retries>>
  /\ UNCHANGED ingestFrame

\* process_parsed: existence check, split_text, publish doc.chunks; no chunk fails
process_parsed_split ==
  /\ spc = "split"
  /\ IF ~doc_exists
       THEN /\ spc' = "idle"
            /\ UNCHANGED <<topic, published>>
       ELSE IF file_chunks = 0
         THEN /\ spc' = "fail"
              /\ UNCHANGED <<topic, published>>
         ELSE /\ \E ok \in BOOLEAN : KafkaSend("chunks", ok)
              /\ spc' = "idle"
  /\ UNCHANGED <<doc_exists, doc_status, chunk_count, file_chunks, milvus, es,
                 redelivered, ppc, vpc, dpc, uploaded, retries>>
  /\ UNCHANGED ingestFrame

\* process_parsed: except Exception: status=failed
process_parsed_fail ==
  /\ spc = "fail"
  /\ UpdateStatus("failed")
  /\ spc' = "idle"
  /\ UNCHANGED <<doc_exists, chunk_count, file_chunks, milvus, es, topic, published,
                 redelivered, ppc, vpc, dpc, uploaded, retries>>
  /\ UNCHANGED ingestFrame

\* ------------------------------------------------------------- vectorizer
\* process_chunks: initial existence check, status=embedding
process_chunks_begin ==
  /\ vpc = "idle"
  /\ KafkaTake("chunks")
  /\ IF doc_exists
       THEN /\ doc_status' = "embedding"
            /\ vpc' = "embed"
       ELSE UNCHANGED <<doc_status, vpc>>
  /\ UNCHANGED <<doc_exists, chunk_count, file_chunks, milvus, es, published,
                 redelivered, ppc, spc, dpc, uploaded, retries>>
  /\ UNCHANGED ingestFrame

\* process_chunks: the knowledge base row is read, and the handler returns when
\* there is none; then provider.embed / batch_encode, which may raise
process_chunks_embed ==
  /\ vpc = "embed"
  /\ \E knowledge \in BOOLEAN, ok \in BOOLEAN :
       vpc' = IF ~knowledge THEN "idle"
              ELSE IF ok THEN "milvus" ELSE "cleanup_milvus"
  /\ UNCHANGED <<doc_exists, doc_status, chunk_count, file_chunks, milvus, es, topic,
                 published, redelivered, ppc, spc, dpc, uploaded, retries>>
  /\ UNCHANGED ingestFrame

\* process_chunks: milvus_client.insert_vectors, which may raise
process_chunks_milvus ==
  /\ vpc = "milvus"
  /\ \E ok \in BOOLEAN :
       IF ok
         THEN /\ milvus' = MilvusInsert(file_chunks)
              /\ vpc' = "es"
         ELSE /\ vpc' = "cleanup_milvus"
              /\ UNCHANGED milvus
  /\ UNCHANGED <<doc_exists, doc_status, chunk_count, file_chunks, es, topic,
                 published, redelivered, ppc, spc, dpc, uploaded, retries>>
  /\ UNCHANGED ingestFrame

\* process_chunks: es_client.batch_index_chunks. ensure_index may raise; the bulk
\* write indexes a subset of the actions and returns whether all succeeded, and the
\* caller does not read the returned value
process_chunks_es ==
  /\ vpc = "es"
  /\ \/ /\ vpc' = "cleanup_milvus"
        /\ UNCHANGED es
     \/ \E written \in SUBSET ChunkIds(file_chunks) :
          /\ es' = EsIndex(written)
          /\ vpc' = "finish"
  /\ UNCHANGED <<doc_exists, doc_status, chunk_count, file_chunks, milvus, topic,
                 published, redelivered, ppc, spc, dpc, uploaded, retries>>
  /\ UNCHANGED ingestFrame

\* process_chunks: the second existence check, then status=completed, chunk_count
process_chunks_finish ==
  /\ vpc = "finish"
  /\ IF doc_exists
       THEN /\ doc_status' = "completed"
            /\ chunk_count' = file_chunks
            /\ vpc' = "idle"
       ELSE /\ vpc' = "gone_milvus"
            /\ UNCHANGED <<doc_status, chunk_count>>
  /\ UNCHANGED <<doc_exists, file_chunks, milvus, es, topic, published, redelivered,
                 ppc, spc, dpc, uploaded, retries>>
  /\ UNCHANGED ingestFrame

\* process_chunks: the document was deleted mid-flight: delete from the vector store
process_chunks_gone_milvus ==
  /\ vpc = "gone_milvus"
  /\ \E ok \in BOOLEAN :
       IF ok
         THEN /\ milvus' = MilvusDeleteByDocument
              /\ vpc' = "gone_es"
         ELSE /\ vpc' = "cleanup_milvus"
              /\ UNCHANGED milvus
  /\ UNCHANGED <<doc_exists, doc_status, chunk_count, file_chunks, es, topic,
                 published, redelivered, ppc, spc, dpc, uploaded, retries>>
  /\ UNCHANGED ingestFrame

\* process_chunks: the document was deleted mid-flight: delete from the inverted index
process_chunks_gone_es ==
  /\ vpc = "gone_es"
  /\ \E ok \in BOOLEAN :
       IF ok
         THEN /\ es' = EsDeleteByDocument
              /\ vpc' = "idle"
         ELSE /\ vpc' = "cleanup_milvus"
              /\ UNCHANGED es
  /\ UNCHANGED <<doc_exists, doc_status, chunk_count, file_chunks, milvus, topic,
                 published, redelivered, ppc, spc, dpc, uploaded, retries>>
  /\ UNCHANGED ingestFrame

\* process_chunks, except: the compensating delete from the vector store; when it
\* raises, the inner except skips the delete from the inverted index
process_chunks_cleanup_milvus ==
  /\ vpc = "cleanup_milvus"
  /\ \E ok \in BOOLEAN :
       IF ok
         THEN /\ milvus' = MilvusDeleteByDocument
              /\ vpc' = "cleanup_es"
         ELSE /\ vpc' = "mark_failed"
              /\ UNCHANGED milvus
  /\ UNCHANGED <<doc_exists, doc_status, chunk_count, file_chunks, es, topic,
                 published, redelivered, ppc, spc, dpc, uploaded, retries>>
  /\ UNCHANGED ingestFrame

\* process_chunks, except: the compensating delete from the inverted index
process_chunks_cleanup_es ==
  /\ vpc = "cleanup_es"
  /\ \E ok \in BOOLEAN : es' = IF ok THEN EsDeleteByDocument ELSE es
  /\ vpc' = "mark_failed"
  /\ UNCHANGED <<doc_exists, doc_status, chunk_count, file_chunks, milvus, topic,
                 published, redelivered, ppc, spc, dpc, uploaded, retries>>
  /\ UNCHANGED ingestFrame

\* process_chunks, except: status=failed
process_chunks_mark_failed ==
  /\ vpc = "mark_failed"
  /\ UpdateStatus("failed")
  /\ vpc' = "idle"
  /\ UNCHANGED <<doc_exists, chunk_count, file_chunks, milvus, es, topic, published,
                 redelivered, ppc, spc, dpc, uploaded, retries>>
  /\ UNCHANGED ingestFrame

\* ------------------------------------------------------------------ delete
\* DocumentService.delete_document: get_document_by_id (404 when there is no row)
delete_document_begin ==
  /\ dpc = "idle"
  /\ doc_exists
  /\ dpc' = "milvus"
  /\ UNCHANGED <<doc_exists, doc_status, chunk_count, file_chunks, milvus, es, topic,
                 published, redelivered, ppc, spc, vpc, uploaded, retries>>
  /\ UNCHANGED ingestFrame

\* delete_document: delete from the vector store; when it raises, the except skips
\* the delete from the inverted index
delete_document_milvus ==
  /\ dpc = "milvus"
  /\ \E ok \in BOOLEAN :
       IF ok
         THEN /\ milvus' = MilvusDeleteByDocument
              /\ dpc' = "es"
         ELSE /\ dpc' = "row"
              /\ UNCHANGED milvus
  /\ UNCHANGED <<doc_exists, doc_status, chunk_count, file_chunks, es, topic,
                 published, redelivered, ppc, spc, vpc, uploaded, retries>>
  /\ UNCHANGED ingestFrame

\* delete_document: delete from the inverted index
delete_document_es ==
  /\ dpc = "es"
  /\ \E ok \in BOOLEAN : es' = IF ok THEN EsDeleteByDocument ELSE es
  /\ dpc' = "row"
  /\ UNCHANGED <<doc_exists, doc_status, chunk_count, file_chunks, milvus, topic,
                 published, redelivered, ppc, spc, vpc, uploaded, retries>>
  /\ UNCHANGED ingestFrame

\* delete_document: db.delete(document), commit, return
delete_document_row ==
  /\ dpc = "row"
  /\ doc_exists' = FALSE
  /\ dpc' = "done"
  /\ UNCHANGED <<doc_status, chunk_count, file_chunks, milvus, es, topic, published,
                 redelivered, ppc, spc, vpc, uploaded, retries>>
  /\ UNCHANGED ingestFrame

\* ----------------------------------------------------- ingestion: next state
IngestNext ==
  \/ upload_document
  \/ retry_document
  \/ Redeliver
  \/ process_upload_begin
  \/ process_upload_parse
  \/ process_upload_mark
  \/ process_upload_fail
  \/ process_parsed_begin
  \/ process_parsed_split
  \/ process_parsed_fail
  \/ process_chunks_begin
  \/ process_chunks_embed
  \/ process_chunks_milvus
  \/ process_chunks_es
  \/ process_chunks_finish
  \/ process_chunks_gone_milvus
  \/ process_chunks_gone_es
  \/ process_chunks_cleanup_milvus
  \/ process_chunks_cleanup_es
  \/ process_chunks_mark_failed
  \/ delete_document_begin
  \/ delete_document_milvus
  \/ delete_document_es
  \/ delete_document_row

\* the steps of each worker's handler
process_upload ==
  \/ process_upload_begin
  \/ process_upload_parse
  \/ process_upload_mark
  \/ process_upload_fail

process_parsed ==
  \/ process_parsed_begin
  \/ process_parsed_split
  \/ process_parsed_fail

process_chunks ==
  \/ process_chunks_begin
  \/ process_chunks_embed
  \/ process_chunks_milvus
  \/ process_chunks_es
  \/ process_chunks_finish
  \/ process_chunks_gone_milvus
  \/ process_chunks_gone_es
  \/ process_chunks_cleanup_milvus
  \/ process_chunks_cleanup_es
  \/ process_chunks_mark_failed

\* ------------------------------------------------------ claims: ingestion
\* the statuses of a document on its way through the pipeline
InFlight == {"uploading", "parsing", "splitting", "embedding"}

\* C37: with workers that keep running, a document that was uploaded or retried
\* does not stay in uploading, parsing, splitting or embedding for ever: it reaches
\* completed or failed (or its row is deleted).
C37_EventuallySettled ==
  (doc_exists /\ doc_status \in InFlight) ~>
    (~doc_exists \/ doc_status \in {"completed", "failed"})

Quiescent ==
  /\ ppc = "idle" /\ spc = "idle" /\ vpc = "idle"
  /\ dpc \in {"idle", "done"}

ExactlyOnce(n) ==
  \A i \in ChunkIdx : milvus[i] = (IF i \in ChunkIds(n) THEN 1 ELSE 0)

\* C1: whenever the vectorizer handler finishes by setting status=completed for a
\* message of N chunks, the vector store and the inverted index each hold exactly
\* the N records document_id_0 .. document_id_(N-1), and chunk_count = N, also when
\* the bulk write to the inverted index reports a partial or total failure.
C1_CompletedMeansBothStoresFull ==
  [][(vpc = "finish" /\ vpc' = "idle" /\ doc_status' = "completed")
       => (/\ es' = ChunkIds(file_chunks)
           /\ ExactlyOnce(file_chunks)'
           /\ chunk_count' = file_chunks)]_vars

\* C2: once delete_document has returned and every handler in flight has finished,
\* neither store holds a record of the document, in every interleaving and also
\* when one of the two store deletions raises.
C2_DeletedLeavesNoRecord ==
  (dpc = "done" /\ ppc = "idle" /\ spc = "idle" /\ vpc = "idle") => StoresEmpty

\* C3: whenever the vectorizer handler ends with status=failed, no record of the
\* document remains in either store, even when the first compensating deletion
\* itself raises.
C3_FailedLeavesNoRecord ==
  [][(vpc = "mark_failed" /\ vpc' = "idle" /\ doc_status' = "failed")
       => StoresEmpty']_vars

Rank(s) ==
  CASE s = "uploading" -> 0
    [] s = "parsing" -> 1
    [] s = "splitting" -> 2
    [] s = "embedding" -> 3
    [] s = "completed" -> 4
    [] OTHER -> 5

\* C4: the status of a document only moves forward along uploading -> parsing ->
\* splitting -> embedding -> completed, or to failed; the only move backward is the
\* explicit retry that resets failed to uploading.
C4_StatusMonotonic ==
  [][(doc_exists /\ doc_exists')
       => \/ doc_status' = "failed"
          \/ Rank(doc_status') >= Rank(doc_status)
          \/ (doc_status = "failed" /\ doc_status' = "uploading"
              /\ retries' = retries + 1)]_vars

\* C5: processing the same message twice leaves each chunk_id exactly once per
\* store: when the pipeline is at rest no chunk_id has more than one record in the
\* vector store (the inverted index is keyed by chunk_id).
C5_ReprocessKeepsOneRecordPerChunk ==
  Quiescent => \A i \in ChunkIdx : milvus[i] <= 1

\* ==================================================================== chat
Requests == 1 .. NumRequests

Min(a, b) == IF a <= b THEN a ELSE b

\* the steps of POST /ask: chat_with_context has generate_answer make the response,
\* updates the cache window (user, then assistant), then chat saves the two rows
UnaryFlow == <<"generate_answer",
               "add_user_llen", "add_user_exec", "add_asst_llen", "add_asst_exec",
               "save_user_count", "save_user_commit",
               "save_asst_count", "save_asst_commit", "done">>

\* the steps of POST /ask/stream: the user row, the lookup of the LLM and its API
\* key, the stream, then finally_save: the assistant row and the assistant message
\* of the cache window; "rejected" is the request answered with an HTTPException
StreamFlow == <<"save_user_count", "save_user_commit", "llm_config", "generate_stream",
                "save_asst_count", "save_asst_commit",
                "add_asst_llen", "add_asst_exec", "done", "rejected">>

Flow(r) == IF rkind[r] = "unary" THEN UnaryFlow ELSE StreamFlow

\* token_usage of a response: nothing yet, and the three zeros generate_answer
\* answers with when the call of the model raised
NoUsage == [prompt_tokens |-> 0 - 1, completion_tokens |-> 0 - 1, total_tokens |-> 0 - 1]

ZeroUsage == [prompt_tokens |-> 0, completion_tokens |-> 0, total_tokens |-> 0]

\* what _call_llm_api comes to: a dict with the answer and the usage the provider
\* counted, or an exception (no model, no key, the provider's errors after the
\* retries of the call)
LlmResults ==
  {[raised |-> FALSE,
    token_usage |-> [prompt_tokens |-> p, completion_tokens |-> c,
                     total_tokens |-> p + c]] : p, c \in 0 .. MaxUsage}
    \cup {[raised |-> TRUE, token_usage |-> NoUsage]}

Step(r) == IF rpc[r] = 0 THEN "idle" ELSE Flow(r)[rpc[r]]

Advance(r) == rpc' = [rpc EXCEPT ![r] = @ + 1]

\* raise HTTPException: the handler is left where it stands
Reject(r) == rpc' = [rpc EXCEPT ![r] = Len(Flow(r))]

\* rows of h earlier turns, and the window a series of unary turns leaves for them
HistoryOf(h) ==
  [i \in 1 .. (2 * h) |->
     [role |-> IF i % 2 = 1 THEN "user" ELSE "assistant", sequence |-> i,
      req |-> 0]]

WindowOf(h) ==
  [i \in 1 .. Min(2 * h, 2 * MAX_CONTEXT_TURNS) |->
     [role |-> IF i % 2 = 1 THEN "assistant" ELSE "user", req |-> 0]]

InitTurns == {0, MAX_CONTEXT_TURNS - 1, MAX_CONTEXT_TURNS}

ChatInit ==
  /\ \E h \in InitTurns :
       /\ chat_history = HistoryOf(h)
       /\ message_count = 2 * h
       /\ cache_messages = WindowOf(h)
       /\ turn_count = Min(h, MAX_CONTEXT_TURNS)
  /\ session_lock = FALSE
  /\ rkind = [r \in Requests |-> "unary"]
  /\ rpc = [r \in Requests |-> 0]
  /\ r_max_seq = [r \in Requests |-> 0]
  /\ r_llen = [r \in Requests |-> 0]
  /\ r_answer = [r \in Requests |-> "none"]
  /\ r_token_usage = [r \in Requests |-> NoUsage]

\* RedisClient.acquire_lock: SET key 1 NX EX 30. No handler of the chat API calls it.
acquire_lock ==
  /\ session_lock = FALSE
  /\ session_lock' = TRUE

\* RedisClient.release_lock: DEL key. No handler of the chat API calls it.
release_lock == session_lock' = FALSE

\* POST /ask
chat(r) ==
  /\ rpc[r] = 0
  /\ rkind' = [rkind EXCEPT ![r] = "unary"]
  /\ Advance(r)
  /\ UNCHANGED <<chat_history, message_count, cache_messages, turn_count,
                 session_lock, r_max_seq, r_llen>>
  /\ UNCHANGED <<r_answer, r_token_usage>>
  /\ UNCHANGED chatFrame

\* POST /ask/stream
chat_stream(r) ==
  /\ rpc[r] = 0
  /\ rkind' = [rkind EXCEPT ![r] = "stream"]
  /\ Advance(r)
  /\ UNCHANGED <<chat_history, message_count, cache_messages, turn_count,
                 session_lock, r_max_seq, r_llen>>
  /\ UNCHANGED <<r_answer, r_token_usage>>
  /\ UNCHANGED chatFrame

\* RAGService.generate_answer: the answer and the usage of the model, or, when the
\* call raised, the apology and a usage of zeros
generate_answer(r) ==
  /\ Step(r) = "generate_answer"
  /\ \E llm_result \in LlmResults :
       IF llm_result.raised
         THEN /\ r_answer' = [r_answer EXCEPT ![r] = "apology"]
              /\ r_token_usage' = [r_token_usage EXCEPT ![r] = ZeroUsage]
         ELSE /\ r_answer' = [r_answer EXCEPT ![r] = "answer"]
              /\ r_token_usage' = [r_token_usage EXCEPT ![r] = llm_result.token_usage]
  /\ Advance(r)
  /\ UNCHANGED <<chat_history, message_count, cache_messages, turn_count,
                 session_lock, rkind, r_max_seq, r_llen>>
  /\ UNCHANGED chatFrame

\* RedisClient.add_message: LLEN is sent at once, outside the pipeline, and so
\* reads the length before the queued LPUSH
add_message_llen(r) ==
  /\ Step(r) \in {"add_user_llen", "add_asst_llen"}
  /\ r_llen' = [r_llen EXCEPT ![r] = Len(cache_messages)]
  /\ Advance(r)
  /\ UNCHANGED <<chat_history, message_count, cache_messages, turn_count,
                 session_lock, rkind, r_max_seq>>
  /\ UNCHANGED <<r_answer, r_token_usage>>
  /\ UNCHANGED chatFrame

\* the list after the MULTI/EXEC of add_message: LPUSH, and RPOP when the length read
\* had reached 2 * MAX_CONTEXT_TURNS
Pushed(list, msg, llen) ==
  IF llen >= 2 * MAX_CONTEXT_TURNS
    THEN SubSeq(<<msg>> \o list, 1, Len(list))
    ELSE <<msg>> \o list

\* turn_count as add_message stores it
Turns(llen) == Min((llen + 1) \div 2, MAX_CONTEXT_TURNS)

\* RedisClient.add_message: pipe.execute()
add_message_execute(r) ==
  /\ Step(r) \in {"add_user_exec", "add_asst_exec"}
  /\ LET role == IF Step(r) = "add_user_exec" THEN "user" ELSE "assistant"
     IN cache_messages' = Pushed(cache_messages, [role |-> role, req |-> r], r_llen[r])
  /\ turn_count' = Turns(r_llen[r])
  /\ Advance(r)
  /\ UNCHANGED <<chat_history, message_count, session_lock, rkind, r_max_seq, r_llen>>
  /\ UNCHANGED <<r_answer, r_token_usage>>
  /\ UNCHANGED chatFrame

\* SessionService.save_chat_message: max_seq = count of the session's rows
save_chat_message_count(r) ==
  /\ Step(r) \in {"save_user_count", "save_asst_count"}
  /\ r_max_seq' = [r_max_seq EXCEPT ![r] = Len(chat_history)]
  /\ Advance(r)
  /\ UNCHANGED <<chat_history, message_count, cache_messages, turn_count,
                 session_lock, rkind, r_llen>>
  /\ UNCHANGED <<r_answer, r_token_usage>>
  /\ UNCHANGED chatFrame

\* SessionService.save_chat_message: add the row with sequence = max_seq + 1, set
\* session.message_count = max_seq + 1, commit
save_chat_message_commit(r) ==
  /\ Step(r) \in {"save_user_commit", "save_asst_commit"}
  /\ LET role == IF Step(r) = "save_user_commit" THEN "user" ELSE "assistant"
     IN chat_history' =
          Append(chat_history,
                 [role |-> role, sequence |-> r_max_seq[r] + 1, req |-> r])
  /\ message_count' = r_max_seq[r] + 1
  /\ Advance(r)
  /\ UNCHANGED <<cache_messages, turn_count, session_lock, rkind, r_max_seq, r_llen>>
  /\ UNCHANGED <<r_answer, r_token_usage>>
  /\ UNCHANGED chatFrame

\* chat_stream: the LLM row (status 1) and an API key (status 1) of the robot's chat
\* model are looked up after the user row is committed; a missing one is a 400
chat_stream_llm_config(r) ==
  /\ Step(r) = "llm_config"
  /\ \E found \in BOOLEAN : IF found THEN Advance(r) ELSE Reject(r)
  /\ UNCHANGED <<chat_history, message_count, cache_messages, turn_count,
                 session_lock, rkind, r_max_seq, r_llen>>
  /\ UNCHANGED <<r_answer, r_token_usage>>
  /\ UNCHANGED chatFrame

\* the ways a streamed response ends: the provider's stream is read to its end, the
\* upstream fails (generate_stream yields the error and returns), or the client goes
\* away and the generator is closed at a yield
StreamEnds == {"completed", "upstream_error", "client_disconnect"}

\* chat_stream: the response is streamed to its end; the finally clause runs
\* finally_save however the generator is left
generate_stream_with_save(r) ==
  /\ Step(r) = "generate_stream"
  /\ \E how \in StreamEnds : Advance(r)
  /\ UNCHANGED <<chat_history, message_count, cache_messages, turn_count,
                 session_lock, rkind, r_max_seq, r_llen>>
  /\ UNCHANGED <<r_answer, r_token_usage>>
  /\ UNCHANGED chatFrame

ChatNext ==
  \E r \in Requests :
    \/ chat(r)
    \/ chat_stream(r)
    \/ generate_answer(r)
    \/ add_message_llen(r)
    \/ add_message_execute(r)
    \/ save_chat_message_count(r)
    \/ save_chat_message_commit(r)
    \/ chat_stream_llm_config(r)
    \/ generate_stream_with_save(r)

\* --------------------------------------------------------- claims: chat
AllRequestsOver == \A r \in Requests : Step(r) \in {"idle", "done", "rejected"}

Sequences == {chat_history[i].sequence : i \in 1 .. Len(chat_history)}

\* C6: after any sequence and interleaving of chat requests on one session,
\* message_count equals the number of ChatHistory rows and the sequence values are
\* exactly 1..message_count, with no duplicate and no gap.
C6_SequenceIsDense ==
  AllRequestsOver =>
    /\ message_count = Len(chat_history)
    /\ Sequences = 1 .. message_count
    /\ Cardinality(Sequences) = Len(chat_history)

\* a request is inside its write section from its first write to the session (a row
\* or a cache push) until its last
InWriteSection(r) ==
  /\ rpc[r] > 0
  /\ IF rkind[r] = "unary"
       THEN Step(r) \in {"add_asst_llen", "add_asst_exec", "save_user_count",
                         "save_user_commit", "save_asst_count", "save_asst_commit"}
       ELSE Step(r) \in {"generate_stream", "save_asst_count", "save_asst_commit",
                         "add_asst_llen", "add_asst_exec"}

\* C7: at most one chat request at a time is inside the write section of a session
\* (the session lock serializes the writers).
C7_SingleWriter ==
  Cardinality({r \in Requests : InWriteSection(r)}) <= 1

\* C8: in every reachable state the cached list has at most 2 * MAX_CONTEXT_TURNS
\* messages and turn_count <= MAX_CONTEXT_TURNS.
C8_WindowCap ==
  /\ Len(cache_messages) <= 2 * MAX_CONTEXT_TURNS
  /\ turn_count <= MAX_CONTEXT_TURNS

RowsOf(r, role) ==
  {i \in 1 .. Len(chat_history) :
     chat_history[i].req = r /\ chat_history[i].role = role}

\* C11: every streaming chat request that got as far as saving its user message
\* has, once it is over, exactly one assistant row.
C11_StreamPersistsAssistant ==
  \A r \in Requests :
    (rkind[r] = "stream" /\ Step(r) \in {"done", "rejected"}
       /\ RowsOf(r, "user") # {})
      => Cardinality(RowsOf(r, "assistant")) = 1

\* the places of the cache window that hold a message of request r with this role
WindowOfRequest(r, role) ==
  {i \in 1 .. Len(cache_messages) :
     cache_messages[i].req = r /\ cache_messages[i].role = role}

\* a unary request whose call of the model raised and which has returned
FailedUnaryOver(r) ==
  rkind[r] = "unary" /\ Step(r) = "done" /\ r_answer[r] = "apology"

\* C30: a unary chat whose provider call failed returns the apology with a token
\* usage of zeros, has exactly one user row and one assistant row (the apology),
\* their sequence numbers following one another, and has pushed both messages to
\* the cache window.
C30_ApologyPersisted ==
  \A r \in Requests :
    FailedUnaryOver(r) =>
      /\ r_token_usage[r] = ZeroUsage
      /\ Cardinality(RowsOf(r, "user")) = 1
      /\ Cardinality(RowsOf(r, "assistant")) = 1
      /\ \A i \in RowsOf(r, "user"), j \in RowsOf(r, "assistant") :
           chat_history[j].sequence = chat_history[i].sequence + 1
      /\ Cardinality(WindowOfRequest(r, "user")) = 1
      /\ Cardinality(WindowOfRequest(r, "assistant")) = 1

\* request r is over and no other request has begun
OnlyTurn(r) ==
  /\ Step(r) = "done"
  /\ \A q \in Requests \ {r} : Step(q) = "idle"

\* the two newest entries of the window are the question and the answer of r
TurnInWindow(r) ==
  /\ Len(cache_messages) >= 2
  /\ cache_messages[1] = [role |-> "assistant", req |-> r]
  /\ cache_messages[2] = [role |-> "user", req |-> r]

\* C33: a completed streaming turn leaves the cache window as a unary turn does: its
\* two newest entries are the user question followed by the assistant answer.
C33_StreamTurnInWindow ==
  \A r \in Requests : (rkind[r] = "stream" /\ OnlyTurn(r)) => TurnInWindow(r)

\* ================================================================ streaming
\* a line of the provider's stream: a chunk whose delta carries a non-empty
\* reasoning_content, a non-empty content, a finish_reason; a line that is not JSON;
\* or the point where reading the stream raises
Chunks == [kind : {"chunk"}, reasoning : BOOLEAN, content : BOOLEAN, finish : BOOLEAN]

IsChunk(line) == line.kind = "chunk"

NoChunk(k) == [kind |-> k, reasoning |-> FALSE, content |-> FALSE, finish |-> FALSE]

Lines == Chunks \cup {NoChunk("bad_json"), NoChunk("raise")}

SeqsUpTo(S, n) == UNION {[1 .. k -> S] : k \in 0 .. n}

Rep(x, n) == [i \in 1 .. n |-> x]

StreamInit ==
  /\ n_contexts \in 0 .. MaxContexts
  /\ response_ok \in BOOLEAN
  /\ provider_lines \in SeqsUpTo(Lines, MaxLines)
  /\ stream_pc = "start"
  /\ pos = 1
  /\ events = <<>>
  /\ has_reasoning_started = FALSE
  /\ has_text_started = FALSE
  /\ full_answer = 0
  /\ full_reasoning_content = FALSE

\* generate_stream: searchGuid and one context event per retrieved context, when
\* there is any
ContextEvents(n) ==
  IF n > 0 THEN <<"searchGuid">> \o Rep("context", n) ELSE <<>>

generate_stream_contexts ==
  /\ stream_pc = "start"
  /\ events' = events \o ContextEvents(n_contexts)
  /\ stream_pc' = "request"
  /\ UNCHANGED <<n_contexts, response_ok, provider_lines, pos, has_reasoning_started,
                 has_text_started, full_answer, full_reasoning_content>>
  /\ UNCHANGED streamFrame

\* generate_stream: the POST; a status other than 200 yields one text event and returns
generate_stream_request ==
  /\ stream_pc = "request"
  /\ IF response_ok
       THEN /\ stream_pc' = "lines"
            /\ UNCHANGED events
       ELSE /\ stream_pc' = "done"
            /\ events' = Append(events, "text_error")
  /\ UNCHANGED <<n_contexts, response_ok, provider_lines, pos, has_reasoning_started,
                 has_text_started, full_answer, full_reasoning_content>>
  /\ UNCHANGED streamFrame

\* the events of the reasoning_content branch
ReasoningEvents(c, text_started) ==
  IF c.reasoning
    THEN (IF ~text_started THEN <<"reasoner">> ELSE <<>>) \o <<"think_1">>
    ELSE <<>>

\* the events of the content branch, which runs after the reasoning branch
ContentEvents(c, text_started, reasoning_content) ==
  IF c.content
    THEN (IF reasoning_content /\ ~text_started THEN <<"reasoner">>
          ELSE IF ~text_started /\ ~reasoning_content THEN <<"text_header">>
          ELSE <<>>) \o <<"text">>
    ELSE <<>>

\* the events of the finish_reason branch: no break follows it
FinishEvents(c, reasoning_content) ==
  IF c.finish
    THEN (IF reasoning_content THEN <<"think_2">> ELSE <<>>) \o <<"finished">>
    ELSE <<>>

\* generate_stream: one line of response.iter_lines()
generate_stream_line ==
  /\ stream_pc = "lines"
  /\ pos <= Len(provider_lines)
  /\ LET line == provider_lines[pos] IN
     IF IsChunk(line)
       THEN LET started1 == has_text_started \/ line.reasoning
                reasoning1 == full_reasoning_content \/ line.reasoning
                started2 == started1 \/ line.content
            IN /\ events' = events \o ReasoningEvents(line, has_text_started)
                                   \o ContentEvents(line, started1, reasoning1)
                                   \o FinishEvents(line, reasoning1)
               /\ has_reasoning_started' = (has_reasoning_started \/ line.reasoning)
               /\ has_text_started' = started2
               /\ full_reasoning_content' = reasoning1
               /\ full_answer' = full_answer + (IF line.content THEN 1 ELSE 0)
               /\ stream_pc' = "lines"
       ELSE IF line.kind = "bad_json"
         THEN UNCHANGED <<events, has_reasoning_started, has_text_started,
                          full_reasoning_content, full_answer, stream_pc>>
         ELSE /\ events' = Append(events, "text_error")
              /\ stream_pc' = "done"
              /\ UNCHANGED <<has_reasoning_started, has_text_started,
                             full_reasoning_content, full_answer>>
  /\ pos' = pos + 1
  /\ UNCHANGED <<n_contexts, response_ok, provider_lines>>
  /\ UNCHANGED streamFrame

\* generate_stream: [DONE], or the end of the response
generate_stream_end ==
  /\ stream_pc = "lines"
  /\ pos > Len(provider_lines)
  /\ stream_pc' = "done"
  /\ UNCHANGED <<n_contexts, response_ok, provider_lines, pos, events,
                 has_reasoning_started, has_text_started, full_answer,
                 full_reasoning_content>>
  /\ UNCHANGED streamFrame

StreamNext ==
  \/ generate_stream_contexts
  \/ generate_stream_request
  \/ generate_stream_line
  \/ generate_stream_end

\* ------------------------------------------------------ claims: streaming
Count(seq, x) == Cardinality({i \in 1 .. Len(seq) : seq[i] = x})

LineIdx == 1 .. Len(provider_lines)

\* the provider's stream is read without error and reaches a finish_reason
ReachesFinish ==
  /\ response_ok
  /\ \A i \in LineIdx : IsChunk(provider_lines[i])
  /\ \E i \in LineIdx : provider_lines[i].finish

\* C9: when the provider stream reaches a finish_reason, the emitted events hold
\* exactly one finished event and it is the last one, also when finish_reason comes in
\* more than one chunk or deltas follow it.
C9_OneFinishedAtEnd ==
  (stream_pc = "done" /\ ReachesFinish) =>
    /\ Count(events, "finished") = 1
    /\ events[Len(events)] = "finished"

\* the provider sends finish_reason once, in its last chunk
FinishesOnceAtEnd ==
  /\ ReachesFinish
  /\ \A i \in LineIdx : provider_lines[i].finish <=> i = Len(provider_lines)

Deltas(field) ==
  Cardinality({i \in LineIdx : IsChunk(provider_lines[i]) /\ provider_lines[i][field]})

Prefix == <<"searchGuid">> \o Rep("context", n_contexts)

\* [searchGuid, context+, text, text+, finished]
PlainBody == <<"text_header">> \o Rep("text", Deltas("content")) \o <<"finished">>

\* [searchGuid, context+, reasoner, think+, (reasoner?), text+, think(status=2), finished]
ReasonedBody(again) ==
  <<"reasoner">> \o Rep("think_1", Deltas("reasoning")) \o again
    \o Rep("text", Deltas("content")) \o <<"think_2", "finished">>

\* C10: the ordered event types match the grammar: searchGuid, one context per
\* retrieved chunk, then without reasoning a text header, one text per content delta
\* and finished; with reasoning reasoner, one think per reasoning delta, optionally
\* reasoner, one text per content delta, the closing think and finished; for every
\* order of the reasoning and content deltas.
C10_EventGrammar ==
  (stream_pc = "done" /\ FinishesOnceAtEnd /\ n_contexts >= 1
     /\ Deltas("content") >= 1) =>
    IF Deltas("reasoning") = 0
      THEN events = Prefix \o PlainBody
      ELSE \E again \in {<<>>, <<"reasoner">>} : events = Prefix \o ReasonedBody(again)

\* the provider answered with a status other than 200, or reading its stream raised
UpstreamFailed ==
  \/ ~response_ok
  \/ \E i \in LineIdx : i < pos /\ provider_lines[i].kind = "raise"

\* C12: when the provider returns a non-200 status or raises during streaming, the
\* emitter emits one text event carrying the error and the stream still ends with a
\* finished event.
C12_ErrorThenFinished ==
  (stream_pc = "done" /\ UpstreamFailed) =>
    /\ Count(events, "text_error") = 1
    /\ events[Len(events)] = "finished"

\* ================================================================ sessions
Users == 1 .. NumUsers

Robots == 1 .. NumRobots

SessionIds == 1 .. MaxSessions

\* a request that names no session carries session_id = None
NoSessionId == 0

NoSession == [user_id |-> 0, robot_id |-> 0, status |-> "none", message_count |-> 0]

NoResponse == [op |-> "none", status |-> 0, detail |-> "none"]

\* Robot.user_id: the users own two robots each, as far as there are robots
OwnerOf(b) == Min((b + 1) \div 2, NumUsers)

SessInit ==
  /\ sessions = [s \in SessionIds |-> NoSession]
  /\ history_rows = [s \in SessionIds |-> 0]
  /\ context_len = [s \in SessionIds |-> 0]
  /\ robot_owner = [b \in Robots |-> OwnerOf(b)]
  /\ response = NoResponse
  /\ n_calls = 0

\* SessionService.get_session_by_id: the row with this session_id and the caller's
\* user_id whose status is not "deleted"; 0 stands for None
get_session_by_id(sid, user) ==
  IF /\ sid \in SessionIds
     /\ sessions[sid].user_id = user
     /\ sessions[sid].status \notin {"none", "deleted"}
    THEN sid
    ELSE NoSessionId

\* str(uuid.uuid4()): an id no session has, and not the one the request names
FreshIds(named) == {s \in SessionIds \ {named} : sessions[s].status = "none"}

NewSessionId(named) == CHOOSE s \in FreshIds(named) : \A t \in FreshIds(named) : s <= t

\* SessionService.create_session: 404 unless the robot is the caller's; the id of the
\* row it adds otherwise
create_session_result(user, robot_id, named) ==
  IF robot_owner[robot_id] = user
    THEN [status |-> 200, session_id |-> NewSessionId(named), is_new |-> TRUE]
    ELSE [status |-> 404, session_id |-> NoSessionId, is_new |-> FALSE]

\* the detail of the HTTPException of get_or_create_session
DetailOf(status) ==
  CASE status = 400 -> "session_robot_mismatch"
    [] status = 404 -> "robot_not_found"
    [] OTHER -> "ok"

\* get_or_create_session without the comparison of robot ids
get_or_create_session_any_robot(user, robot_id, session_id) ==
  IF session_id # NoSessionId /\ get_session_by_id(session_id, user) # NoSessionId
    THEN [status |-> 200, session_id |-> session_id, is_new |-> FALSE]
    ELSE create_session_result(user, robot_id, session_id)

\* SessionService.get_or_create_session
get_or_create_session(user, robot_id, session_id) ==
  IF session_id # NoSessionId /\ get_session_by_id(session_id, user) # NoSessionId
    THEN IF sessions[session_id].robot_id # robot_id
           THEN [status |-> 400, session_id |-> NoSessionId, is_new |-> FALSE]
           ELSE [status |-> 200, session_id |-> session_id, is_new |-> FALSE]
    ELSE create_session_result(user, robot_id, session_id)

\* the Session row create_session adds, and init_context
Created(got, user, robot_id) ==
  IF got.is_new
    THEN [sessions EXCEPT ![got.session_id] =
            [user_id |-> user, robot_id |-> robot_id, status |-> "active",
             message_count |-> 0]]
    ELSE sessions

Answer(op, status, detail) ==
  /\ response' = [op |-> op, status |-> status, detail |-> detail]
  /\ n_calls' = n_calls + 1

\* whether a call may add a session: the model has MaxSessions ids
RoomFor(user, session_id) ==
  (session_id # NoSessionId /\ get_session_by_id(session_id, user) # NoSessionId)
    \/ FreshIds(session_id) # {}

\* POST /ask and POST /ask/stream as one step: get_or_create_session, the robot's
\* knowledge bases (none linked: 400), the answer, the two rows of save_chat_message
\* and the messages added to the cache window (the streaming endpoint adds only the
\* assistant's)
ask(user, robot_id, session_id, linked, stream) ==
  /\ n_calls < MaxCalls
  /\ RoomFor(user, session_id)
  /\ LET got == get_or_create_session(user, robot_id, session_id)
         id == got.session_id
     IN IF got.status # 200
          THEN /\ Answer("ask", got.status, DetailOf(got.status))
               /\ UNCHANGED <<sessions, history_rows, context_len>>
          ELSE IF ~linked
            THEN /\ sessions' = Created(got, user, robot_id)
                 /\ Answer("ask", 400, "no_knowledge")
                 /\ UNCHANGED <<history_rows, context_len>>
            ELSE /\ sessions' = [Created(got, user, robot_id) EXCEPT
                                   ![id].message_count = history_rows[id] + 2]
                 /\ history_rows' = [history_rows EXCEPT ![id] = @ + 2]
                 /\ context_len' =
                      [context_len EXCEPT
                         ![id] = Min(@ + (IF stream THEN 1 ELSE 2),
                                     2 * MAX_CONTEXT_TURNS)]
                 /\ Answer("ask", 200, "ok")
  /\ UNCHANGED robot_owner
  /\ UNCHANGED sessFrame

\* POST /sessions
create_session(user, robot_id) ==
  /\ n_calls < MaxCalls
  /\ FreshIds(NoSessionId) # {}
  /\ LET got == create_session_result(user, robot_id, NoSessionId)
     IN /\ sessions' = Created(got, user, robot_id)
        /\ Answer("create", got.status, DetailOf(got.status))
  /\ UNCHANGED <<history_rows, context_len, robot_owner>>
  /\ UNCHANGED sessFrame

\* PUT /sessions/{session_id} with a status: archiving clears the cached context
update_session(user, session_id, status) ==
  /\ n_calls < MaxCalls
  /\ IF get_session_by_id(session_id, user) = NoSessionId
       THEN /\ Answer("update", 404, "session_not_found")
            /\ UNCHANGED <<sessions, context_len>>
       ELSE /\ sessions' = [sessions EXCEPT ![session_id].status = status]
            /\ context_len' = IF status = "archived"
                                THEN [context_len EXCEPT ![session_id] = 0]
                                ELSE context_len
            /\ Answer("update", 200, "ok")
  /\ UNCHANGED <<history_rows, robot_owner>>
  /\ UNCHANGED sessFrame

\* DELETE /sessions/{session_id}: the soft delete, and the cached context cleared
delete_session(user, session_id) ==
  /\ n_calls < MaxCalls
  /\ IF get_session_by_id(session_id, user) = NoSessionId
       THEN /\ Answer("delete", 404, "session_not_found")
            /\ UNCHANGED <<sessions, context_len>>
       ELSE /\ sessions' = [sessions EXCEPT ![session_id].status = "deleted"]
            /\ context_len' = [context_len EXCEPT ![session_id] = 0]
            /\ Answer("delete", 200, "ok")
  /\ UNCHANGED <<history_rows, robot_owner>>
  /\ UNCHANGED sessFrame

SessNext ==
  \/ \E u \in Users, b \in Robots, s \in SessionIds \cup {NoSessionId},
        linked \in BOOLEAN, stream \in BOOLEAN : ask(u, b, s, linked, stream)
  \/ \E u \in Users, b \in Robots : create_session(u, b)
  \/ \E u \in Users, s \in SessionIds, st \in {"active", "archived"} :
       update_session(u, s, st)
  \/ \E u \in Users, s \in SessionIds : delete_session(u, s)

\* ---------------------------------------------------------- claims: sessions
\* this step is a chat request of the user for the robot that names the session
AskStep(user, robot_id, session_id) ==
  \E linked \in BOOLEAN, stream \in BOOLEAN :
    ask(user, robot_id, session_id, linked, stream)

\* the session named is one of the caller's and is bound to another robot
Mismatch(user, robot_id, session_id) ==
  /\ get_session_by_id(session_id, user) # NoSessionId
  /\ sessions[session_id].robot_id # robot_id

\* C13: a chat request that names an existing session of the caller whose robot_id
\* differs from the request's is rejected with 400 and changes no session, no
\* ChatHistory row, no message_count and no cache window; and the robot_id of a
\* session never changes once it is created.
C13_MismatchRejected ==
  [][/\ \A u \in Users, b \in Robots, s \in SessionIds :
          (Mismatch(u, b, s) /\ AskStep(u, b, s))
            => (response'.status = 400
                /\ UNCHANGED <<sessions, history_rows, context_len>>)
     /\ \A s \in SessionIds :
          sessions[s].status # "none" => sessions'[s].robot_id = sessions[s].robot_id
    ]_vars

\* a chat request was rejected for the mismatch on a session that has messages
C13_Rejected ==
  /\ response = [op |-> "ask", status |-> 400, detail |-> "session_robot_mismatch"]
  /\ \E s \in SessionIds : history_rows[s] > 0 /\ context_len[s] > 0

\* the session id named is one the caller has no session for: unknown,
\* soft-deleted, or another user's
NotFound(user, session_id) ==
  /\ session_id # NoSessionId
  /\ get_session_by_id(session_id, user) = NoSessionId

\* C14: a chat request that names a session_id which is unknown, soft-deleted or
\* owned by another user is answered with 404, creates no session and persists no
\* message.
C14_UnknownSessionIs404 ==
  [][\A u \in Users, b \in Robots, s \in SessionIds :
       (NotFound(u, s) /\ AskStep(u, b, s))
         => (response'.status = 404 /\ UNCHANGED <<sessions, history_rows>>)]_vars

\* ================================================================ retrieval
ChunkPool == 1 .. NumChunkIds

Range(seq) == {seq[i] : i \in 1 .. Len(seq)}

\* the rankings a store can return: no chunk twice, at most MaxLeg hits
Rankings ==
  {seq \in SeqsUpTo(ChunkPool, MaxLeg) : Cardinality(Range(seq)) = Len(seq)}

FuseInit ==
  /\ vector_hits \in Rankings
  /\ keyword_hits \in Rankings
  /\ top_k \in 1 .. MaxTopK
  /\ enable_rerank \in BOOLEAN
  /\ \E missing \in SUBSET ChunkPool :
       Cardinality(missing) <= 1 /\ es_missing = missing
  /\ vector_results = <<>>
  /\ keyword_results = <<>>
  /\ leg_top_k = [vector |-> 0, keyword |-> 0]
  /\ contexts = <<>>
  /\ fuse_pc = "vector"

\* all_results[:top_k], and the "size" of the keyword query
FirstK(hits, k) == SubSeq(hits, 1, Min(k, Len(hits)))

\* hybrid_retrieve, step 1: _vector_retrieve(db, knowledge_ids, query, top_k)
vector_retrieve ==
  /\ fuse_pc = "vector"
  /\ vector_results' = FirstK(vector_hits, top_k)
  /\ leg_top_k' = [leg_top_k EXCEPT !.vector = top_k]
  /\ fuse_pc' = "keyword"
  /\ UNCHANGED <<vector_hits, keyword_hits, top_k, enable_rerank, es_missing,
                 keyword_results, contexts>>
  /\ UNCHANGED fuseFrame

\* hybrid_retrieve, step 2: _keyword_retrieve(knowledge_ids, query, top_k)
keyword_retrieve ==
  /\ fuse_pc = "keyword"
  /\ keyword_results' = FirstK(keyword_hits, top_k)
  /\ leg_top_k' = [leg_top_k EXCEPT !.keyword = top_k]
  /\ fuse_pc' = "merge"
  /\ UNCHANGED <<vector_hits, keyword_hits, top_k, enable_rerank, es_missing,
                 vector_results, contexts>>
  /\ UNCHANGED fuseFrame

\* scores are kept as integers: the score times RrfScale, which every 60 + rank + 1
\* of a leg divides
RECURSIVE RrfScaleUpTo(_)
RrfScaleUpTo(n) == IF n = 0 THEN 1 ELSE (RRF_K + n) * RrfScaleUpTo(n - 1)

RrfScale == RrfScaleUpTo(MaxLeg)

\* 1 / (60 + rank), the rank counted from 1
RrfTermFromOne(rank) == RrfScale \div (RRF_K + rank)

\* 1 / (60 + rank + 1)
RrfTerm(rank) == RrfScale \div (RRF_K + rank + 1)

\* what the loop over enumerate(results) adds to rrf_score of the chunk
RECURSIVE LegScore(_, _, _)
LegScore(results, chunk_id, n) ==
  IF n = 0 THEN 0
  ELSE LegScore(results, chunk_id, n - 1)
         + (IF results[n] = chunk_id THEN RrfTerm(n - 1) ELSE 0)

\* merged_scores.values(): the chunks in the order their keys were inserted, first
\* those of the vector leg, then the ones only the keyword leg has
MergedOrder(vr, kr) ==
  vr \o SelectSeq(kr, LAMBDA c : c \notin Range(vr))

\* merged_scores[chunk_id] after the two loops
Merged(vr, kr, c) ==
  [chunk_id |-> c,
   score |-> LegScore(vr, c, Len(vr)) + LegScore(kr, c, Len(kr)),
   source |-> IF c \notin Range(vr) THEN "keyword"
              ELSE IF c \in Range(kr) THEN "hybrid" ELSE "vector"]

\* an insertion that puts x before the entries of equal score
InsertBeforeTies(sorted, x) ==
  LET p == Cardinality({i \in 1 .. Len(sorted) : sorted[i].score > x.score})
  IN SubSeq(sorted, 1, p) \o <<x>> \o SubSeq(sorted, p + 1, Len(sorted))

\* sorted(..., reverse=True) is stable: x goes after the entries of equal score
InsertDesc(sorted, x) ==
  LET p == Cardinality({i \in 1 .. Len(sorted) : sorted[i].score >= x.score})
  IN SubSeq(sorted, 1, p) \o <<x>> \o SubSeq(sorted, p + 1, Len(sorted))

\* sorted(merged_scores.values(), key=rrf_score, reverse=True)
RECURSIVE SortedDesc(_)
SortedDesc(seq) ==
  IF seq = <<>> THEN <<>>
  ELSE InsertDesc(SortedDesc(SubSeq(seq, 1, Len(seq) - 1)), seq[Len(seq)])

\* RAGService._merge_results: fuse, sort, cut to top_k, and keep the chunks whose
\* content get_chunk_by_id finds
merge_results(vr, kr, k) ==
  LET order == MergedOrder(vr, kr)
      values == [i \in 1 .. Len(order) |-> Merged(vr, kr, order[i])]
      sorted_results == FirstK(SortedDesc(values), k)
  IN SelectSeq(sorted_results, LAMBDA m : m.chunk_id \notin es_missing)

\* hybrid_retrieve, step 3: _merge_results(vector_results, keyword_results, top_k)
merge ==
  /\ fuse_pc = "merge"
  /\ contexts' = merge_results(vector_results, keyword_results, top_k)
  /\ fuse_pc' = "done"
  /\ UNCHANGED <<vector_hits, keyword_hits, top_k, enable_rerank, es_missing,
                 vector_results, keyword_results, leg_top_k>>
  /\ UNCHANGED fuseFrame

FuseNext ==
  \/ vector_retrieve
  \/ keyword_retrieve
  \/ merge

\* --------------------------------------------------------- claims: retrieval
InV(c) == c \in Range(vector_results)

InK(c) == c \in Range(keyword_results)

\* the 0-based rank of a chunk in a leg that has it
RankIn(results, c) == (CHOOSE i \in 1 .. Len(results) : results[i] = c) - 1

\* the sum over the legs that contain the chunk of 1 / (60 + r + 1), times RrfScale
FusedScore(c) ==
  (IF InV(c) THEN RrfScale \div (RRF_K + RankIn(vector_results, c) + 1) ELSE 0)
    + (IF InK(c) THEN RrfScale \div (RRF_K + RankIn(keyword_results, c) + 1) ELSE 0)

Fused == Range(vector_results) \cup Range(keyword_results)

Returned == {contexts[i].chunk_id : i \in 1 .. Len(contexts)}

TopInBoth(c) ==
  /\ InV(c) /\ RankIn(vector_results, c) = 0
  /\ InK(c) /\ RankIn(keyword_results, c) = 0

TopInOne(c) ==
  /\ ~TopInBoth(c)
  /\ \/ InV(c) /\ RankIn(vector_results, c) = 0
     \/ InK(c) /\ RankIn(keyword_results, c) = 0

C16_TieOrder ==
  fuse_pc = "done" =>
    \A i, j \in 1 .. Len(contexts) :
      (i < j /\ contexts[i].score = contexts[j].score) =>
        LET a == contexts[i].chunk_id
            b == contexts[j].chunk_id
        IN /\ ~(~InV(a) /\ InV(b))
           /\ (InV(a) /\ InV(b))
                => RankIn(vector_results, a) < RankIn(vector_results, b)
           /\ (~InV(a) /\ ~InV(b))
                => RankIn(keyword_results, a) < RankIn(keyword_results, b)

\* the list returned holds a chunk of the vector leg and a chunk only the keyword leg
\* has, with the same fused score
C16_TieReturned ==
  /\ fuse_pc = "done"
  /\ \E i, j \in 1 .. Len(contexts) :
       /\ i # j
       /\ contexts[i].score = contexts[j].score
       /\ InV(contexts[i].chunk_id)
       /\ ~InV(contexts[j].chunk_id)

\* C17: with enable_rerank each leg is asked for 4 * top_k candidates, every
\* returned source ends with "+rerank" and at most top_k contexts are returned;
\* without it each leg is asked for top_k candidates.
C17_RerankRecall ==
  fuse_pc = "done" =>
    IF enable_rerank
      THEN /\ leg_top_k = [vector |-> 4 * top_k, keyword |-> 4 * top_k]
           /\ \A i \in 1 .. Len(contexts) :
                contexts[i].source
                  \in {"vector+rerank", "keyword+rerank", "hybrid+rerank"}
           /\ Len(contexts) <= top_k
      ELSE leg_top_k = [vector |-> top_k, keyword |-> top_k]

\* ========================================================== knowledge bases
Kbs == 1 .. NumKbs

\* Knowledge.status: 0 disabled, 1 enabled
KbStatuses == {0, 1}

KbInit ==
  /\ kb_status \in [Kbs -> KbStatuses]
  /\ robot_knowledge \in SUBSET Kbs
  /\ searched = {}
  /\ retrieval_by = "none"
  /\ n_retrievals = 0

\* KnowledgeService.update_knowledge with a status
update_knowledge(kb, st) ==
  /\ kb_status[kb] # st
  /\ kb_status' = [kb_status EXCEPT ![kb] = st]
  /\ UNCHANGED <<robot_knowledge, searched, retrieval_by, n_retrievals>>
  /\ UNCHANGED kbFrame

\* RobotService.get_robot_knowledge_ids: the linked knowledge bases whose status is 1
get_robot_knowledge_ids == {kb \in robot_knowledge : kb_status[kb] = 1}

\* hybrid_retrieve (or one leg of it) is called with these knowledge_ids
Retrieve(endpoint, knowledge_ids) ==
  /\ n_retrievals < MaxRetrievals
  /\ searched' = knowledge_ids
  /\ retrieval_by' = endpoint
  /\ n_retrievals' = n_retrievals + 1
  /\ UNCHANGED <<kb_status, robot_knowledge>>
  /\ UNCHANGED kbFrame

\* POST /ask and POST /ask/stream: 400 when the robot has no enabled knowledge base
chat_retrieve ==
  /\ get_robot_knowledge_ids # {}
  /\ Retrieve("chat", get_robot_knowledge_ids)

\* POST /robots/{robot_id}/retrieval-test: an empty answer when the robot has no
\* enabled knowledge base
retrieval_test ==
  /\ get_robot_knowledge_ids # {}
  /\ Retrieve("retrieval_test", get_robot_knowledge_ids)

\* POST /test: the knowledge base of the request, found by id
test_knowledge(knowledge_id) ==
  /\ knowledge_id \in Kbs
  /\ Retrieve("test_knowledge", {knowledge_id})

\* RecallService.run_recall_task: the knowledge_ids of the request, as the task
\* message carries them
run_recall_retrieve(knowledge_ids) ==
  /\ knowledge_ids \subseteq Kbs
  /\ Retrieve("recall", knowledge_ids)

KbNext ==
  \/ \E kb \in Kbs, st \in KbStatuses : update_knowledge(kb, st)
  \/ chat_retrieve
  \/ retrieval_test
  \/ \E kb \in Kbs : test_knowledge(kb)
  \/ \E ids \in SUBSET Kbs : run_recall_retrieve(ids)

\* ---------------------------------------------------- claims: knowledge bases
\* C18: every retrieval made for a request (chat, retrieval test, knowledge test,
\* recall test) searches only knowledge bases whose status is 1.
C18_OnlyEnabledSearched ==
  [][n_retrievals' = n_retrievals + 1
       => \A kb \in searched' : kb_status[kb] = 1]_vars

\* ============================================================ recall metrics
Docs == 1 .. NumDocs

\* a retrieved context: its document_id, and whether its score >= threshold
Contexts == [document_id : Docs, passes : BOOLEAN]

Frac(n, d) == [num |-> n, den |-> d]

NoItem == [recall |-> Frac(0, 1), precision |-> Frac(0, 1), top_n_hit |-> FALSE]

MetricsInit ==
  /\ queries_total \in 1 .. MaxMeasured
  /\ retrieved = <<>>
  /\ expected_ids = {}
  /\ item = NoItem
  /\ hit_count = 0
  /\ n_measured = 0
  /\ summary = Frac(0, 1)
  /\ metrics_pc = "loop"

\* retrieved_ids = [ctx.document_id for ctx in retrieved if ctx.score >= threshold]
RetrievedIds(ret) ==
  LET passing == SelectSeq(ret, LAMBDA ctx : ctx.passes)
  IN [i \in 1 .. Len(passing) |-> passing[i].document_id]

\* run_recall_task: the metrics of one query; with expected ids, hits is the set
\* intersection, recall divides by len(expected_ids), precision by
\* len(retrieved_ids), the length of the list
Metrics(ret, exp) ==
  LET retrieved_ids == RetrievedIds(ret)
      hits == Range(retrieved_ids) \cap exp
  IN IF exp # {}
       THEN [recall |-> Frac(Cardinality(hits), Cardinality(exp)),
             precision |-> IF Len(retrieved_ids) > 0
                             THEN Frac(Cardinality(hits), Len(retrieved_ids))
                             ELSE Frac(0, 1),
             top_n_hit |-> \E e \in exp, i \in 1 .. Len(ret) : ret[i].document_id = e]
       ELSE [recall |-> Frac(IF Len(retrieved_ids) > 0 THEN 1 ELSE 0, 1),
             precision |-> Frac(IF Len(retrieved_ids) > 0 THEN 1 ELSE 0, 1),
             top_n_hit |-> Len(retrieved_ids) > 0]

\* run_recall_task: one pass of the loop over the queries
measure(ret, exp) ==
  /\ metrics_pc = "loop"
  /\ n_measured < queries_total
  /\ retrieved' = ret
  /\ expected_ids' = exp
  /\ item' = Metrics(ret, exp)
  /\ hit_count' = hit_count + (IF Metrics(ret, exp).top_n_hit THEN 1 ELSE 0)
  /\ n_measured' = n_measured + 1
  /\ UNCHANGED <<queries_total, summary, metrics_pc>>
  /\ UNCHANGED metricsFrame

\* run_recall_task: the summary after the loop
summarize ==
  /\ metrics_pc = "loop"
  /\ n_measured = queries_total
  /\ summary' = Frac(hit_count, queries_total)
  /\ metrics_pc' = "done"
  /\ UNCHANGED <<queries_total, retrieved, expected_ids, item, hit_count, n_measured>>
  /\ UNCHANGED metricsFrame

MetricsNext ==
  \/ \E ret \in SeqsUpTo(Contexts, MaxRetrieved), exp \in SUBSET Docs :
       measure(ret, exp)
  \/ summarize

\* ------------------------------------------------------ claims: recall metrics
\* R: the set of retrieved document ids whose score >= threshold
PassingDocs ==
  {retrieved[i].document_id : i \in {j \in 1 .. Len(retrieved) : retrieved[j].passes}}

SameFrac(f, n, d) == f.num * d = n * f.den

InUnit(f) == 0 <= f.num /\ f.num <= f.den /\ f.den > 0

\* C19: for a query with expected ids E and R the set of retrieved document ids
\* whose score >= threshold, recall = |R n E| / |E| and precision = |R n E| / |R|
\* (0 when R is empty), both in [0,1], also when several retrieved chunks are of one
\* document; top_n_hit iff some expected id is in the unfiltered retrieved list; the
\* summary's top_n_hit_rate is hits / total.
C19_RecallPrecision ==
  /\ (n_measured > 0 /\ expected_ids # {}) =>
       /\ SameFrac(item.recall, Cardinality(PassingDocs \cap expected_ids),
                   Cardinality(expected_ids))
       /\ IF PassingDocs = {}
            THEN item.precision.num = 0
            ELSE SameFrac(item.precision, Cardinality(PassingDocs \cap expected_ids),
                          Cardinality(PassingDocs))
       /\ InUnit(item.recall)
       /\ InUnit(item.precision)
       /\ item.top_n_hit <=>
            \E i \in 1 .. Len(retrieved) : retrieved[i].document_id \in expected_ids
  /\ metrics_pc = "done" => summary = Frac(hit_count, queries_total)

\* ============================================================== recall task
\* a call of start_test for a task of rq_total queries: nothing is stored or
\* published yet
RecallInit ==
  /\ rq_total \in 1 .. MaxQueries
  /\ task_exists = FALSE
  /\ task_status = "none"
  /\ task_progress = 0
  /\ rq_i = 0
  /\ upd_found = FALSE
  /\ cancelled = FALSE
  /\ missed = FALSE
  /\ task_results = {}
  /\ task_summary = FALSE
  /\ task_error = FALSE
  /\ task_written = FALSE
  /\ recall_published = FALSE
  /\ recall_pc = "start_test_set"

\* start_test: set_recall_task(task_id, task_data) with status pending and progress
\* 0; set_recall_task returns False when the SET raises, and start_test does not read
\* what it returns
start_test_set ==
  /\ recall_pc = "start_test_set"
  /\ \E stored \in BOOLEAN :
       /\ task_written' = stored
       /\ IF stored
            THEN /\ task_exists' = TRUE
                 /\ task_status' = "pending"
                 /\ task_progress' = 0
            ELSE UNCHANGED <<task_exists, task_status, task_progress>>
  /\ recall_pc' = "start_test_send"
  /\ UNCHANGED <<rq_total, rq_i, upd_found, cancelled, missed, task_results,
                 task_summary, task_error, recall_published>>
  /\ UNCHANGED recallFrame

\* start_test: producer.send("rag.recall.test", ...); KafkaProducer.send logs a
\* failed send and returns; the worker runs run_recall_task for a message that is
\* on the bus
start_test_send ==
  /\ recall_pc = "start_test_send"
  /\ \E sent \in BOOLEAN :
       /\ recall_published' = sent
       /\ recall_pc' = IF sent THEN "start_get" ELSE "unsent"
  /\ UNCHANGED <<rq_total, task_exists, task_status, task_progress, rq_i, upd_found,
                 cancelled, missed, task_results, task_summary, task_error,
                 task_written>>
  /\ UNCHANGED recallFrame

\* at-least-once delivery: the rag.recall.test message is delivered again after
\* process_recall_test returned, and run_recall_task starts over
process_recall_test_again ==
  /\ recall_pc = "done"
  /\ recall_published
  /\ recall_pc' = "start_get"
  /\ rq_i' = 0
  /\ UNCHANGED <<rq_total, task_exists, task_status, task_progress, upd_found,
                 cancelled, missed, task_results, task_summary, task_error,
                 task_written, recall_published>>
  /\ UNCHANGED recallFrame

\* RedisClient.update_recall_task, first half: data = get_recall_task(task_id)
update_recall_task_get ==
  /\ recall_pc \in {"start_get", "progress_get", "finish_get", "failed_get"}
  /\ upd_found' = task_exists
  /\ missed' = (missed \/ (cancelled /\ ~task_exists))
  /\ recall_pc' = CASE recall_pc = "start_get" -> "start_set"
                    [] recall_pc = "progress_get" -> "progress_set"
                    [] recall_pc = "finish_get" -> "finish_set"
                    [] OTHER -> "failed_set"
  /\ UNCHANGED <<rq_total, task_exists, task_status, task_progress, rq_i, cancelled,
                 task_results, task_summary, task_error, task_written,
                 recall_published>>
  /\ UNCHANGED recallFrame

\* where run_recall_task goes on after an update_recall_task; its result is not read
AfterUpdate(pc) ==
  CASE pc = "start_set" -> "retrieve"
    [] pc = "progress_set" -> IF rq_i = rq_total THEN "finish_get" ELSE "retrieve"
    [] OTHER -> "done"

\* RedisClient.update_recall_task, second half: when data was found, SET the key to
\* the updated data; return False otherwise
update_recall_task_set ==
  /\ recall_pc \in {"start_set", "progress_set", "finish_set", "failed_set"}
  /\ IF upd_found
       THEN /\ task_exists' = TRUE
            /\ task_status' = CASE recall_pc = "start_set" -> "running"
                                [] recall_pc = "finish_set" -> "finished"
                                [] recall_pc = "failed_set" -> "failed"
                                [] OTHER -> task_status
            /\ task_progress' = CASE recall_pc = "progress_set" -> rq_i
                                  [] recall_pc = "finish_set" -> rq_total
                                  [] OTHER -> task_progress
            /\ task_results' = IF recall_pc = "finish_set" THEN 1 .. rq_i
                               ELSE task_results
            /\ task_summary' = (task_summary \/ recall_pc = "finish_set")
            /\ task_error' = (task_error \/ recall_pc = "failed_set")
       ELSE UNCHANGED <<task_exists, task_status, task_progress, task_results,
                        task_summary, task_error>>
  /\ recall_pc' = AfterUpdate(recall_pc)
  /\ UNCHANGED <<rq_total, rq_i, upd_found, cancelled, missed, task_written,
                 recall_published>>
  /\ UNCHANGED recallFrame

\* the progress is written after every tenth query and after the last
WritesProgress(done) == done % PROGRESS_EVERY = 0 \/ done = rq_total

\* run_recall_task: hybrid_retrieve for the next query and its metrics; an exception
\* goes to the except clause
recall_query ==
  /\ recall_pc = "retrieve"
  /\ rq_i < rq_total
  /\ rq_i' = rq_i + 1
  /\ \E raised \in BOOLEAN :
       recall_pc' = IF raised THEN "failed_get"
                    ELSE IF WritesProgress(rq_i + 1) THEN "progress_get"
                    ELSE "retrieve"
  /\ UNCHANGED <<rq_total, task_exists, task_status, task_progress, upd_found,
                 cancelled, missed, task_results, task_summary, task_error,
                 task_written, recall_published>>
  /\ UNCHANGED recallFrame

\* the task key is deleted from outside (a cancellation), or expires
delete_recall_key ==
  /\ task_exists
  /\ task_exists' = FALSE
  /\ cancelled' = (cancelled \/ task_status = "running")
  /\ UNCHANGED <<rq_total, task_status, task_progress, rq_i, upd_found, missed,
                 recall_pc,
                 task_results, task_summary, task_error, task_written,
                 recall_published>>
  /\ UNCHANGED recallFrame

RecallNext ==
  \/ start_test_set
  \/ start_test_send
  \/ process_recall_test_again
  \/ update_recall_task_get
  \/ update_recall_task_set
  \/ recall_query
  \/ delete_recall_key

\* ---------------------------------------------------------- claims: recall task
\* C20: once the key of a running recall task is deleted, the worker stops at its
\* next write to the key: after a write found the key missing it makes no further
\* retrieval, and the key is never created again.
C20_CancelStopsWorker ==
  [][/\ missed => rq_i' = rq_i
     /\ (cancelled /\ ~task_exists) => ~task_exists']_vars

\* the moves of the persisted status
StatusMoves ==
  {<<"none", "pending">>, <<"pending", "running">>, <<"running", "finished">>,
   <<"running", "failed">>}

\* the progress the record holds while the worker is between two queries, done
\* queries behind it: that of the last tenth query
ProgressDue(done) == done - (done % PROGRESS_EVERY)

\* the record is there and was neither lost nor deleted since the task was started
RecordKept == task_written /\ task_exists /\ ~cancelled

\* C36: the persisted status of a recall task only moves pending -> running ->
\* finished or failed; the persisted progress never decreases, and between two
\* queries it is that of the last tenth query; a finished record holds the full
\* progress, a result for every query and a summary; a failed record holds an error;
\* the message of the task is published only after the record was written.
C36_RecallTaskRecord ==
  [][/\ task_status' # task_status => <<task_status, task_status'>> \in StatusMoves
     /\ task_progress' >= task_progress
     /\ (recall_pc' = "retrieve" /\ RecordKept') => task_progress' = ProgressDue(rq_i')
     /\ task_status' = "finished" =>
          /\ task_progress' = rq_total
          /\ task_results' = 1 .. rq_total
          /\ task_summary'
     /\ task_status' = "failed" => task_error'
     /\ recall_published' => task_written']_vars

\* ============================================================ rate limiter
FreshInclusive(now, t) == now - t <= RATE_WINDOW

\* check_rate_limit keeps the requests of the last RATE_WINDOW seconds
Fresh(now, t) == now - t < RATE_WINDOW

LogOf(n) == [i \in 1 .. n |-> 0]

\* how many requests of a user the limiter holds at time 0
Prefilled == {0, RATE_LIMIT - 1}

NoRateResponse == [user |-> 0, status |-> 0]

\* the limiter when each user has had none or all but one of a window's requests
\* accepted at time 0
RateInit ==
  /\ rl_now = 0
  /\ \E held \in [Users -> Prefilled] :
       /\ rate_limiter = [u \in Users |-> LogOf(held[u])]
       /\ rl_accepted = [u \in Users |-> LogOf(held[u])]
  /\ rl_response = NoRateResponse
  /\ rl_count = 0

\* time.time() between two requests
rl_tick ==
  /\ rl_now + TickSeconds <= MaxTicks * TickSeconds
  /\ rl_now' = rl_now + TickSeconds
  /\ UNCHANGED <<rate_limiter, rl_accepted, rl_response, rl_count>>
  /\ UNCHANGED rateFrame

\* check_rate_limit(user_id) at the head of retrieval_test
check_rate_limit(user_id) ==
  /\ rl_count < MaxRateRequests
  /\ rl_count' = rl_count + 1
  /\ LET kept == SelectSeq(rate_limiter[user_id], LAMBDA t : Fresh(rl_now, t))
     IN IF Len(kept) >= RATE_LIMIT
          THEN /\ rate_limiter' = [rate_limiter EXCEPT ![user_id] = kept]
               /\ rl_response' = [user |-> user_id, status |-> 429]
               /\ UNCHANGED rl_accepted
          ELSE /\ rate_limiter' = [rate_limiter EXCEPT ![user_id] = Append(kept, rl_now)]
               /\ rl_response' = [user |-> user_id, status |-> 200]
               /\ rl_accepted' = [rl_accepted EXCEPT ![user_id] = Append(@, rl_now)]
  /\ UNCHANGED rl_now
  /\ UNCHANGED rateFrame

RateNext ==
  \/ rl_tick
  \/ \E user_id \in Users : check_rate_limit(user_id)

\* --------------------------------------------------------- claims: rate limiter
\* accepted requests of a log in the window of RATE_WINDOW seconds that starts at s
InWindow(log, s) ==
  Cardinality({i \in 1 .. Len(log) : s <= log[i] /\ log[i] < s + RATE_WINDOW})

\* accepted requests of a log within the last RATE_WINDOW seconds at time now
Recent(log, now) ==
  Cardinality({i \in 1 .. Len(log) : now - RATE_WINDOW < log[i] /\ log[i] <= now})

RateStep(u) == rl_count' = rl_count + 1 /\ rl_response'.user = u

TokenIds == 1 .. MaxTokens

NoTime == 0 - 1

NoToken == [issued |-> FALSE, iat |-> 0, outdated |-> FALSE]

NoAuthResponse == [op |-> "none", token |-> 0, status |-> 0]

\* jwt.encode writes a datetime claim as whole seconds since the epoch
WholeSeconds(t) == t \div SubSecond

\* datetime.fromtimestamp(token_iat), in units
FromTimestamp(seconds) == seconds * SubSecond

\* what a DateTime column gives back for a written datetime: the datetime itself, or
\* the datetime cut or rounded to whole seconds where the column has no fraction
DateTimeColumn(t) ==
  {t, (t \div SubSecond) * SubSecond, ((t + SubSecond \div 2) \div SubSecond) * SubSecond}

\* one enabled user who has never changed the password and holds no token
AuthInit ==
  /\ auth_clock = SubSecond
  /\ password_changed_at = NoTime
  /\ tokens = [k \in TokenIds |-> NoToken]
  /\ auth_response = NoAuthResponse

\* the next reading of the clock
Later(d) ==
  /\ auth_clock + d <= MaxClock
  /\ auth_clock' = auth_clock + d

\* create_access_token: iat is the time of the call
create_access_token(k) ==
  [tokens EXCEPT ![k] = [issued |-> TRUE, iat |-> WholeSeconds(auth_clock'),
                         outdated |-> FALSE]]

\* get_current_user for a validly signed unexpired token of the enabled user
get_current_user_status(k) ==
  IF password_changed_at # NoTime /\ tokens[k].iat # 0
       /\ password_changed_at > FromTimestamp(tokens[k].iat)
    THEN 401
    ELSE 200

\* AuthService.login with the right password
login(k, d) ==
  /\ ~tokens[k].issued
  /\ \A j \in TokenIds : j < k => tokens[j].issued
  /\ Later(d)
  /\ tokens' = create_access_token(k)
  /\ auth_response' = [op |-> "login", token |-> k, status |-> 200]
  /\ UNCHANGED password_changed_at
  /\ UNCHANGED authFrame

\* any request whose handler depends on get_current_user
authenticated_request(k, d) ==
  /\ tokens[k].issued
  /\ Later(d)
  /\ auth_response' = [op |-> "request", token |-> k,
                       status |-> get_current_user_status(k)]
  /\ UNCHANGED <<password_changed_at, tokens>>
  /\ UNCHANGED authFrame

\* POST /me/change-password with the right old password: get_current_user, then
\* UserService.change_password
change_password(k, d) ==
  /\ tokens[k].issued
  /\ Later(d)
  /\ IF get_current_user_status(k) = 200
       THEN /\ \E stored \in DateTimeColumn(auth_clock') : password_changed_at' = stored
            /\ tokens' = [j \in TokenIds |->
                            IF tokens[j].issued THEN [tokens[j] EXCEPT !.outdated = TRUE]
                            ELSE tokens[j]]
            /\ auth_response' = [op |-> "change_password", token |-> k, status |-> 200]
       ELSE /\ auth_response' = [op |-> "change_password", token |-> k, status |-> 401]
            /\ UNCHANGED <<password_changed_at, tokens>>
  /\ UNCHANGED authFrame

AuthNext ==
  \/ \E k \in TokenIds, d \in 1 .. MaxGap : login(k, d)
  \/ \E k \in TokenIds, d \in 1 .. MaxGap : authenticated_request(k, d)
  \/ \E k \in TokenIds, d \in 1 .. MaxGap : change_password(k, d)

\* -------------------------------------------------------- claims: authentication
\* C22: a request of the enabled user bearing a valid token is rejected with 401
\* exactly when the password was changed after the token was issued: tokens issued
\* before a password change are rejected afterwards, tokens issued by a login after
\* it are accepted.
C22_TokenOutdatedIff401 ==
  [][\A k \in TokenIds :
       (auth_response'.op = "request" /\ auth_response'.token = k /\ auth_clock' # auth_clock)
         => (auth_response'.status = 401 <=> tokens[k].outdated)]_vars

\* ============================================================ failover provider
Methods == {"chat", "chat_stream", "embed", "rerank"}

\* the arguments of a call: a request, or texts and a model
CallArgs == 1 .. NumArgs

NoCall == [method |-> "none", args |-> 0]

NeverCaught(outcome) == FALSE

\* except Exception: what the body of the try raised is caught
Caught(outcome) == outcome = "raise"

\* the caller's side before the module of FailoverProvider is loaded
FailoverInit ==
  /\ fo_module = "unloaded"
  /\ fo_pc = "idle"
  /\ fo_call = NoCall
  /\ primary_calls = <<>>
  /\ fallback_calls = <<>>
  /\ primary_raised = FALSE
  /\ primary_sent = <<>>
  /\ fallback_sent = <<>>
  /\ received = <<>>
  /\ fo_result = "none"
  /\ fo_count = 0

\* loading failover.py: the annotation of rerank names Dict and Any, which the module
\* does not import; where annotations are evaluated at definition this is a NameError
load_failover ==
  /\ fo_module = "unloaded"
  /\ \E deferred \in BOOLEAN : fo_module' = IF deferred THEN "defined" ELSE "NameError"
  /\ UNCHANGED <<fo_pc, fo_call, primary_calls, fallback_calls, primary_raised,
                 primary_sent, fallback_sent, received, fo_result, fo_count>>
  /\ UNCHANGED failoverFrame

\* a call of chat, chat_stream, embed or rerank on a FailoverProvider
failover_call(method, args) ==
  /\ fo_module = "defined"
  /\ fo_pc = "idle"
  /\ fo_count < MaxFailoverCalls
  /\ fo_count' = fo_count + 1
  /\ fo_call' = [method |-> method, args |-> args]
  /\ fo_pc' = "primary"
  /\ primary_calls' = <<>>
  /\ fallback_calls' = <<>>
  /\ primary_raised' = FALSE
  /\ primary_sent' = <<>>
  /\ fallback_sent' = <<>>
  /\ received' = <<>>
  /\ fo_result' = "none"
  /\ UNCHANGED fo_module
  /\ UNCHANGED failoverFrame

\* chat, embed, rerank: await self.primary.<method>(...) inside the try
primary_unary ==
  /\ fo_pc = "primary"
  /\ fo_call.method # "chat_stream"
  /\ primary_calls' = Append(primary_calls, fo_call)
  /\ \E outcome \in {"return", "raise"} :
       /\ primary_raised' = (outcome = "raise")
       /\ IF Caught(outcome)
            THEN fo_pc' = "fallback" /\ UNCHANGED fo_result
            ELSE fo_pc' = "idle" /\ fo_result' = IF outcome = "return" THEN "primary"
                                                 ELSE "primary_error"
  /\ UNCHANGED <<fo_module, fo_call, fallback_calls, primary_sent, fallback_sent,
                 received, fo_count>>
  /\ UNCHANGED failoverFrame

\* chat, embed, rerank: return await self.fallback.<method>(...) in the except clause
fallback_unary ==
  /\ fo_pc = "fallback"
  /\ fo_call.method # "chat_stream"
  /\ fallback_calls' = Append(fallback_calls, fo_call)
  /\ \E outcome \in {"return", "raise"} :
       fo_result' = IF outcome = "return" THEN "fallback" ELSE "fallback_error"
  /\ fo_pc' = "idle"
  /\ UNCHANGED <<fo_module, fo_call, primary_calls, primary_raised, primary_sent,
                 fallback_sent, received, fo_count>>
  /\ UNCHANGED failoverFrame

\* chat_stream: one step of async for chunk in self.primary.chat_stream(request)
primary_stream ==
  /\ fo_pc = "primary"
  /\ fo_call.method = "chat_stream"
  /\ primary_calls' = IF primary_calls = <<>> THEN <<fo_call>> ELSE primary_calls
  /\ \E outcome \in {"chunk", "return", "raise"} :
       /\ outcome = "chunk" => Len(primary_sent) < MaxStreamChunks
       /\ primary_raised' = (outcome = "raise")
       /\ IF outcome = "chunk"
            THEN LET chunk == [from |-> "primary", i |-> Len(primary_sent) + 1]
                 IN /\ primary_sent' = Append(primary_sent, chunk)
                    /\ received' = Append(received, chunk)
                    /\ UNCHANGED <<fo_pc, fo_result>>
            ELSE /\ UNCHANGED <<primary_sent, received>>
                 /\ IF Caught(outcome)
                      THEN fo_pc' = "fallback" /\ UNCHANGED fo_result
                      ELSE fo_pc' = "idle" /\ fo_result' = IF outcome = "return"
                                                           THEN "primary"
                                                           ELSE "primary_error"
  /\ UNCHANGED <<fo_module, fo_call, fallback_calls, fallback_sent, fo_count>>
  /\ UNCHANGED failoverFrame

\* chat_stream: one step of async for chunk in self.fallback.chat_stream(request)
fallback_stream ==
  /\ fo_pc = "fallback"
  /\ fo_call.method = "chat_stream"
  /\ fallback_calls' = IF fallback_calls = <<>> THEN <<fo_call>> ELSE fallback_calls
  /\ \E outcome \in {"chunk", "return", "raise"} :
       /\ outcome = "chunk" => Len(fallback_sent) < MaxStreamChunks
       /\ IF outcome = "chunk"
            THEN LET chunk == [from |-> "fallback", i |-> Len(fallback_sent) + 1]
                 IN /\ fallback_sent' = Append(fallback_sent, chunk)
                    /\ received' = Append(received, chunk)
                    /\ UNCHANGED <<fo_pc, fo_result>>
            ELSE /\ UNCHANGED <<fallback_sent, received>>
                 /\ fo_pc' = "idle"
                 /\ fo_result' = IF outcome = "return" THEN "fallback"
                                 ELSE "fallback_error"
  /\ UNCHANGED <<fo_module, fo_call, primary_calls, primary_raised, primary_sent,
                 fo_count>>
  /\ UNCHANGED failoverFrame

FailoverNext ==
  \/ load_failover
  \/ \E method \in Methods, args \in CallArgs : failover_call(method, args)
  \/ primary_unary
  \/ fallback_unary
  \/ primary_stream
  \/ fallback_stream

\* ------------------------------------------------------ claims: failover provider
\* the fallback has been invoked, once, with the arguments of the call
FallbackInvoked == fallback_calls = <<fo_call>>

\* C23: for chat, embed and rerank the fallback is invoked with the arguments of the
\* call whenever the primary raised, and is not invoked when the primary did not; for
\* chat_stream, when the primary raised before yielding a chunk and the stream is
\* over, the consumer has received exactly the chunks of the fallback.
C23_Failover ==
  /\ (fo_call.method # "chat_stream" /\ fo_pc = "idle") =>
       IF primary_raised THEN FallbackInvoked ELSE fallback_calls = <<>>
  /\ (fo_call.method = "chat_stream" /\ primary_raised /\ primary_sent = <<>>) =>
       /\ received = fallback_sent
       /\ fo_pc = "idle" => FallbackInvoked

\* a stream whose primary raised before its first chunk has ended with chunks of the
\* fallback
C23_FallbackTookOver ==
  /\ fo_call.method = "chat_stream"
  /\ primary_raised
  /\ primary_sent = <<>>
  /\ fo_pc = "idle"
  /\ Len(received) = MaxStreamChunks

\* where the chunks the consumer has received came from
ReceivedFrom == {received[i].from : i \in 1 .. Len(received)}

\* C39: the consumer of chat_stream never receives chunks of both the primary and
\* the fallback in one stream.
C39_OneSourcePerStream ==
  fo_call.method = "chat_stream" => Cardinality(ReceivedFrom) <= 1

\* ============================================================ MiniMax provider
\* what one _chat_internal can come to: a response, or an exception
\*   timeout, network_error: httpx.TimeoutException, httpx.NetworkError
\*   invalid_json, business_error, empty_choices, empty_content: ValueError
\*   http_status: HTTPStatusError of raise_for_status; other_error: any other exception
AttemptOutcomes ==
  {"success", "content_filter", "timeout", "network_error", "invalid_json",
   "business_error", "empty_choices", "empty_content", "http_status", "other_error"}

AttemptReturned == {"success", "content_filter"}

RetryOnAnyError == AttemptOutcomes \ AttemptReturned

\* retry_if_exception_type((httpx.TimeoutException, httpx.NetworkError, ValueError))
RetryIf ==
  {"timeout", "network_error", "invalid_json", "business_error", "empty_choices",
   "empty_content"}

\* except Exception in chat: every exception of an attempt is caught
CaughtByChat(outcome) == outcome \in AttemptOutcomes \ AttemptReturned

NoLLMResponse == [from |-> "none", attempt |-> 0, finish_reason |-> "none"]

\* the response _chat_internal builds from the provider's answer
ResponseOf(outcome, attempt) ==
  [from |-> outcome, attempt |-> attempt,
   finish_reason |-> IF outcome = "content_filter" THEN "content_filter" ELSE "stop"]

\* the response of the except clause of chat
ApologyResponse(attempt) ==
  [from |-> "apology", attempt |-> attempt, finish_reason |-> "error"]

MinimaxInit ==
  /\ mm_pc = "idle"
  /\ mm_outcomes = <<>>
  /\ mm_response = NoLLMResponse
  /\ mm_raised = FALSE
  /\ mm_count = 0

\* MinimaxProvider.chat is called
minimax_chat ==
  /\ mm_pc \in {"idle", "done"}
  /\ mm_count < MaxMinimaxCalls
  /\ mm_count' = mm_count + 1
  /\ mm_pc' = "attempt"
  /\ mm_outcomes' = <<>>
  /\ mm_response' = NoLLMResponse
  /\ mm_raised' = FALSE
  /\ UNCHANGED minimaxFrame

\* one attempt of AsyncRetrying: _chat_internal, then return, retry, or the except
\* clause of chat when the attempts are used up or the exception is not retried
chat_internal ==
  /\ mm_pc = "attempt"
  /\ \E outcome \in AttemptOutcomes :
       LET n == Len(mm_outcomes) + 1
       IN /\ mm_outcomes' = Append(mm_outcomes, outcome)
          /\ IF outcome \in AttemptReturned
               THEN mm_pc' = "done" /\ mm_response' = ResponseOf(outcome, n)
               ELSE IF outcome \in RetryIf /\ n < STOP_AFTER_ATTEMPT
                      THEN mm_pc' = "attempt" /\ UNCHANGED mm_response
                      ELSE /\ mm_pc' = "done"
                           /\ mm_response' = IF CaughtByChat(outcome)
                                              THEN ApologyResponse(n)
                                              ELSE NoLLMResponse
          /\ mm_raised' = (outcome \notin AttemptReturned /\ mm_pc' = "done"
                            /\ ~CaughtByChat(outcome))
  /\ UNCHANGED mm_count
  /\ UNCHANGED minimaxFrame

MinimaxNext ==
  \/ minimax_chat
  \/ chat_internal

\* ------------------------------------------------------- claims: MiniMax provider
\* the failures the claim lets chat retry after: a timeout, a network error, an
\* invalid, empty or business-error response
MayRetryAfter ==
  {"timeout", "network_error", "invalid_json", "business_error", "empty_choices",
   "empty_content"}

LastOutcome == mm_outcomes[Len(mm_outcomes)]

\* C24: MinimaxProvider.chat never raises; it makes at most 3 attempts, each attempt
\* but the last ended in a timeout, a network error or an invalid, empty or
\* business-error response; it returns the response of the first attempt that
\* succeeds, and the apology with finish_reason "error" when the third attempt failed
\* or an attempt failed with an error that is not retried.
C24_MinimaxChat ==
  /\ ~mm_raised
  /\ Len(mm_outcomes) <= 3
  /\ \A i \in 1 .. Len(mm_outcomes) - 1 : mm_outcomes[i] \in MayRetryAfter
  /\ mm_pc = "attempt" => Len(mm_outcomes) < 3
  /\ mm_pc = "done" =>
       IF LastOutcome \in AttemptReturned
         THEN mm_response = ResponseOf(LastOutcome, Len(mm_outcomes))
         ELSE /\ mm_response.from = "apology"
              /\ mm_response.finish_reason = "error"
              /\ Len(mm_outcomes) = 3 \/ LastOutcome \notin MayRetryAfter

\* success on the third attempt after two timeouts
C24_ThirdAttemptSucceeds ==
  /\ mm_pc = "done"
  /\ mm_outcomes = <<"timeout", "timeout", "success">>
  /\ mm_response.from = "success"

\* ============================================== chat completion over HTTP
\* what one client.post of _call_openai_compatible can come to: a response with its
\* status, or an exception of the client
\*   ok: 200 with choices; bad_json: 200 whose body is no JSON (json() raises a
\*   ValueError); no_choices: 200 whose JSON has no choices[0].message.content
\*   (KeyError, IndexError, TypeError); rate_limited: 429 with no Retry-After or
\*   whole seconds; rate_limited_date: 429 whose Retry-After is no integer, e.g. an
\*   HTTP date (int() raises a ValueError); other_2xx: raise_for_status returns;
\*   other_status: raise_for_status raises
PostOutcomes ==
  {"ok", "bad_json", "no_choices", "rate_limited", "rate_limited_date",
   "unauthorized", "forbidden", "bad_request", "server_error", "other_2xx",
   "other_status", "timeout", "connect_error", "other_exception"}

StatusOf(outcome) ==
  CASE outcome \in {"ok", "bad_json", "no_choices"} -> 200
    [] outcome \in {"rate_limited", "rate_limited_date"} -> 429
    [] outcome = "unauthorized" -> 401
    [] outcome = "forbidden" -> 403
    [] outcome = "bad_request" -> 400
    [] outcome = "server_error" -> 500
    [] outcome = "other_2xx" -> 201
    [] outcome = "other_status" -> 404
    [] OTHER -> 0

\* the outcomes that leave the try with a ValueError, which is raised again
RaisesValueError ==
  {"bad_json", "rate_limited_date", "unauthorized", "forbidden", "bad_request"}

OpenAIInit ==
  /\ oa_pc = "idle"
  /\ oa_attempts = <<>>
  /\ oa_count = 0

\* _call_openai_compatible is called
call_openai_compatible ==
  /\ oa_pc \in {"idle", "returned", "raised"}
  /\ oa_count < MaxCompletionCalls
  /\ oa_count' = oa_count + 1
  /\ oa_pc' = "attempt"
  /\ oa_attempts' = <<>>
  /\ UNCHANGED openaiFrame

\* one pass of the loop: client.post, then return, raise, or go round again; after
\* the last pass the loop is left and the ValueError of the end is raised
post_attempt ==
  /\ oa_pc = "attempt"
  /\ \E outcome \in PostOutcomes :
       /\ oa_attempts' = Append(oa_attempts, outcome)
       /\ oa_pc' = IF outcome = "ok" THEN "returned"
                   ELSE IF outcome \in RaisesValueError THEN "raised"
                   ELSE IF Len(oa_attempts) + 1 < MAX_RETRIES THEN "attempt"
                   ELSE "raised"
  /\ UNCHANGED oa_count
  /\ UNCHANGED openaiFrame

OpenAINext ==
  \/ call_openai_compatible
  \/ post_attempt

\* ------------------------------------------- claims: chat completion over HTTP
LastPost == oa_attempts[Len(oa_attempts)]

\* the outcomes the claim has retried: timeouts, connection errors, 429 and 5xx
ToBeRetried == {o \in PostOutcomes : o \in {"timeout", "connect_error"}
                                     \/ StatusOf(o) = 429 \/ StatusOf(o) >= 500}

\* C25: the chat completion call makes at most 3 HTTP attempts and makes none after a
\* 200; a 401, 403 or 400 response ends the call with an error at that attempt; after
\* a timeout, a connection error, a 429 or a 5xx the call goes on to the next attempt,
\* and raises an error when that was the third.
C25_CompletionRetries ==
  /\ Len(oa_attempts) <= 3
  /\ \A i \in 1 .. Len(oa_attempts) - 1 :
       StatusOf(oa_attempts[i]) \notin {200, 401, 403, 400}
  /\ (oa_pc \in {"returned", "raised"} /\ oa_attempts # <<>>) =>
       /\ oa_pc = "returned" <=> LastPost = "ok"
       /\ LastPost \in ToBeRetried => Len(oa_attempts) = 3

\* ============================================================ document retry
\* the rows a document can have: its id, file and knowledge base
DocumentRows ==
  [document_id : Docs, file_path : {"path"}, file_name : {"name"}, knowledge_id : Kbs]

NoReply == [code |-> 0]

\* the message of retry_document: the four fields of the refreshed row
UploadMessage(row) ==
  [document_id |-> row.document_id, file_path |-> row.file_path,
   file_name |-> row.file_name, knowledge_id |-> row.knowledge_id]

\* KafkaProducer.send: a send that fails is logged and not raised, the message is lost
ProducerSend(queue, message, ok) == IF ok THEN Append(queue, message) ELSE queue

\* an uploaded document whose doc.upload message is on the bus
RetryInit ==
  /\ rd_row \in DocumentRows
  /\ rd_status = "uploading"
  /\ rd_error_msg = "none"
  /\ rd_upload = <<UploadMessage(rd_row)>>
  /\ rd_reply = NoReply
  /\ rd_count = 0

\* the parser takes the doc.upload message
process_document_begin ==
  /\ rd_upload # <<>>
  /\ rd_status = "uploading"
  /\ rd_upload' = Tail(rd_upload)
  /\ rd_status' = "parsing"
  /\ rd_error_msg' = "none"
  /\ UNCHANGED <<rd_row, rd_reply, rd_count>>
  /\ UNCHANGED retryFrame

\* the pipeline ends: the vectorizer marks the document completed, or a worker marks
\* it failed with an error message
process_document_end ==
  /\ rd_status = "parsing"
  /\ \E failed \in BOOLEAN :
       /\ rd_status' = IF failed THEN "failed" ELSE "completed"
       /\ rd_error_msg' = IF failed THEN "error" ELSE "none"
  /\ UNCHANGED <<rd_row, rd_upload, rd_reply, rd_count>>
  /\ UNCHANGED retryFrame

\* POST /{document_id}/retry: DocumentService.retry_document and the reply of the
\* endpoint, which answers HTTP 200 with a code in the body
retry_document_api ==
  /\ rd_count < MaxRetryCalls
  /\ rd_count' = rd_count + 1
  /\ IF rd_status # "failed"
       THEN /\ rd_reply' = [code |-> 500]
            /\ UNCHANGED <<rd_status, rd_error_msg, rd_upload>>
       ELSE /\ rd_status' = "uploading"
            /\ rd_error_msg' = "none"
            /\ \E ok \in BOOLEAN :
                 rd_upload' = ProducerSend(rd_upload, UploadMessage(rd_row), ok)
            /\ rd_reply' = [code |-> 200]
  /\ UNCHANGED rd_row
  /\ UNCHANGED retryFrame

RetryNext ==
  \/ process_document_begin
  \/ process_document_end
  \/ retry_document_api

\* --------------------------------------------------------- claims: document retry
\* C26: a retry of a document whose status is not failed is rejected and changes
\* neither the status nor the error message and publishes nothing; a retry of a
\* failed document sets the status to uploading, clears error_msg and publishes
\* exactly one doc.upload message with the document's document_id, file_path,
\* file_name and knowledge_id.
C26_RetryDocument ==
  [][rd_count' = rd_count + 1 =>
       IF rd_status # "failed"
         THEN /\ rd_reply'.code # 200
              /\ UNCHANGED <<rd_status, rd_error_msg, rd_upload>>
         ELSE /\ rd_status' = "uploading"
              /\ rd_error_msg' = "none"
              /\ rd_upload' = Append(rd_upload, UploadMessage(rd_row))]_vars

\* ===================================================== knowledge base creation
\* the values a request can carry for chunk_size and chunk_overlap, around the limits
\* of KnowledgeCreate
ChunkSizeInputs == {CHUNK_SIZE_GE - 1, CHUNK_SIZE_GE, CHUNK_OVERLAP_LE, CHUNK_SIZE_LE,
                    CHUNK_SIZE_LE + 1}

ChunkOverlapInputs == {CHUNK_OVERLAP_GE - 1, CHUNK_OVERLAP_GE, CHUNK_SIZE_GE - 1,
                       CHUNK_SIZE_GE, CHUNK_OVERLAP_LE, CHUNK_OVERLAP_LE + 1}

NoSplit == [chunk_size |-> 0, chunk_overlap |-> 0]

\* KnowledgeCreate: chunk_size has ge and le, chunk_overlap has ge and le
KnowledgeCreate(chunk_size, chunk_overlap) ==
  /\ chunk_size >= CHUNK_SIZE_GE /\ chunk_size <= CHUNK_SIZE_LE
  /\ chunk_overlap >= CHUNK_OVERLAP_GE /\ chunk_overlap <= CHUNK_OVERLAP_LE

\* no knowledge base yet
KnowledgeInit ==
  /\ knowledges = {}
  /\ kn_status = 0
  /\ split_with = NoSplit

\* POST /knowledge: validation of the body, then KnowledgeService.create_knowledge
create_knowledge(chunk_size, chunk_overlap) ==
  /\ Cardinality(knowledges) < MaxKnowledges
  /\ \E llm_found \in BOOLEAN :
       IF ~KnowledgeCreate(chunk_size, chunk_overlap)
         THEN kn_status' = 422 /\ UNCHANGED knowledges
         ELSE IF ~llm_found
           THEN kn_status' = 404 /\ UNCHANGED knowledges
           ELSE /\ kn_status' = 200
                /\ knowledges' = knowledges \cup
                     {[chunk_size |-> chunk_size, chunk_overlap |-> chunk_overlap]}
  /\ UNCHANGED split_with
  /\ UNCHANGED knowledgeFrame

\* the splitter worker: TextSplitter with the values of the document's knowledge
\* base, a value of 0 replaced by the default of the settings
process_parsed_splitter ==
  /\ \E kb \in knowledges :
       split_with' =
         [chunk_size |-> kb.chunk_size,
          chunk_overlap |-> IF kb.chunk_overlap = 0 THEN DEFAULT_CHUNK_OVERLAP
                            ELSE kb.chunk_overlap]
  /\ UNCHANGED <<knowledges, kn_status>>
  /\ UNCHANGED knowledgeFrame

KnowledgeNext ==
  \/ \E chunk_size \in ChunkSizeInputs, chunk_overlap \in ChunkOverlapInputs :
       create_knowledge(chunk_size, chunk_overlap)
  \/ process_parsed_splitter

\* ----------------------------------------------- claims: knowledge base creation
\* C27: no knowledge base exists with chunk_overlap >= chunk_size, and the splitter
\* is never run with a chunk_overlap that is not smaller than the chunk_size.
C27_OverlapBelowSize ==
  /\ \A kb \in knowledges : kb.chunk_overlap < kb.chunk_size
  /\ split_with # NoSplit => split_with.chunk_overlap < split_with.chunk_size

\* the splitter has run and every knowledge base has chunk_overlap = 0
SplitOfZeroOverlap ==
  /\ split_with # NoSplit
  /\ \A kb \in knowledges : kb.chunk_overlap = 0

\* C35: for a knowledge base configured with chunk_overlap = 0 the splitter stage
\* runs the text splitter with an overlap of 0.
C35_ZeroOverlapKept ==
  SplitOfZeroOverlap => split_with.chunk_overlap = 0

\* ============================================================ text splitter
\* texts are taken by the lengths of their pieces; the pieces have no white space at
\* their ends, so _join_docs strips nothing
RECURSIVE SumLen(_)
SumLen(lens) == IF lens = <<>> THEN 0 ELSE Head(lens) + SumLen(Tail(lens))

\* len(separator.join(docs))
JoinLen(docs, separator_len) ==
  IF docs = <<>> THEN 0 ELSE SumLen(docs) + (Len(docs) - 1) * separator_len

\* the sequences of at most n piece lengths, each below chunk_size, the pieces
\* split_text passes on as they are
RECURSIVE PieceSeqs(_, _)
PieceSeqs(n, chunk_size) ==
  IF n = 0 THEN {<<>>}
  ELSE PieceSeqs(n - 1, chunk_size) \cup
       {Append(s, l) : s \in {t \in PieceSeqs(n - 1, chunk_size) : Len(t) = n - 1},
                       l \in 1 .. chunk_size - 1}

\* while current_length > self.chunk_overlap and current_chunk: pop the first piece
RECURSIVE KeepTail(_, _, _, _)
KeepTail(chunk, length, chunk_overlap, separator_len) ==
  IF length > chunk_overlap /\ chunk # <<>>
    THEN KeepTail(Tail(chunk), length - (Head(chunk) + separator_len), chunk_overlap,
                  separator_len)
    ELSE [chunk |-> chunk, length |-> length]

\* a splitter with chunk_overlap < chunk_size at the head of _merge_splits
SplitterInit ==
  /\ ms_chunk_size \in 2 .. MaxChunkSize
  /\ ms_chunk_overlap \in 0 .. ms_chunk_size - 1
  /\ ms_separator_len \in 0 .. MaxSepLen
  /\ ms_splits \in PieceSeqs(MaxPieces, ms_chunk_size)
  /\ current_chunk = <<>>
  /\ current_length = 0
  /\ final_chunks = <<>>
  /\ carried = <<>>
  /\ ms_pc = "loop"

\* _merge_splits: one pass of the loop over the pieces
merge_splits_piece ==
  /\ ms_pc = "loop"
  /\ ms_splits # <<>>
  /\ LET s_len == Head(ms_splits)
         over == current_length + s_len
                   + (IF current_length > 0 THEN ms_separator_len ELSE 0)
                 > ms_chunk_size
         flush == over /\ current_chunk # <<>>
         kept == IF flush
                   THEN KeepTail(current_chunk, current_length, ms_chunk_overlap,
                                 ms_separator_len)
                   ELSE [chunk |-> current_chunk, length |-> current_length]
     IN /\ final_chunks' = IF flush
                             THEN Append(final_chunks,
                                         JoinLen(current_chunk, ms_separator_len))
                             ELSE final_chunks
        /\ carried' = IF flush
                        THEN Append(carried, JoinLen(kept.chunk, ms_separator_len))
                        ELSE carried
        /\ current_chunk' = Append(kept.chunk, s_len)
        /\ current_length' = kept.length + s_len
                               + (IF kept.length > 0 THEN ms_separator_len ELSE 0)
  /\ ms_splits' = Tail(ms_splits)
  /\ UNCHANGED <<ms_chunk_size, ms_chunk_overlap, ms_separator_len, ms_pc>>
  /\ UNCHANGED splitterFrame

\* _merge_splits: after the loop, the last chunk
merge_splits_end ==
  /\ ms_pc = "loop"
  /\ ms_splits = <<>>
  /\ final_chunks' = IF current_chunk # <<>>
                       THEN Append(final_chunks, JoinLen(current_chunk, ms_separator_len))
                       ELSE final_chunks
  /\ ms_pc' = "returned"
  /\ UNCHANGED <<ms_chunk_size, ms_chunk_overlap, ms_separator_len, ms_splits,
                 current_chunk, current_length, carried>>
  /\ UNCHANGED splitterFrame

SplitterNext ==
  \/ merge_splits_piece
  \/ merge_splits_end

\* ---------------------------------------------------------- claims: text splitter
\* C28: with chunk_overlap < chunk_size, every chunk returned has length <= chunk_size
\* and the text carried over from a chunk into the next has length <= chunk_overlap,
\* for every sequence of piece lengths.
C28_ChunkAndCarryBounds ==
  /\ \A i \in 1 .. Len(final_chunks) : final_chunks[i] <= ms_chunk_size
  /\ \A i \in 1 .. Len(carried) : carried[i] <= ms_chunk_overlap

\* ============================================================ session cache
\* the cache keys of a session (the context hash, the message list, the owner's
\* active-set) against the status of its row, under chat requests, status changes
\* and the archiving job
CacheSessionIds == 1 .. MaxCacheSessions

NoCacheSession == [status |-> "none", user_id |-> 0]

\* get_session_by_id: the row of this user that is not deleted
CacheSessionFound(s, user) ==
  /\ cache_sessions[s].status \notin {"none", "deleted"}
  /\ cache_sessions[s].user_id = user

\* redis_client._add_to_active_sessions: zadd on the user's key
AddToActiveSessions(active, user, s) ==
  [active EXCEPT ![user] = @ \cup {s}]

\* redis_client.remove_from_active_sessions: zrem on the user's key
RemoveFromActiveSessions(active, user, s) ==
  [active EXCEPT ![user] = @ \ {s}]

\* a server with no session and empty cache
CacheInit ==
  /\ cache_sessions = [s \in CacheSessionIds |-> NoCacheSession]
  /\ has_history = [s \in CacheSessionIds |-> FALSE]
  /\ context_key = [s \in CacheSessionIds |-> FALSE]
  /\ messages_key = [s \in CacheSessionIds |-> FALSE]
  /\ active_sessions = [u \in Users |-> {}]
  /\ in_progress = [s \in CacheSessionIds |-> "none"]
  /\ cache_count = 0

\* create_session: the row, then init_context (context hash, active-set)
session_created(user) ==
  /\ cache_count < MaxCacheRequests
  /\ \E s \in CacheSessionIds :
       /\ cache_sessions[s].status = "none"
       /\ \A t \in CacheSessionIds : t < s => cache_sessions[t].status # "none"
       /\ cache_sessions' = [cache_sessions EXCEPT
                               ![s] = [status |-> "active", user_id |-> user]]
       /\ context_key' = [context_key EXCEPT ![s] = TRUE]
       /\ active_sessions' = AddToActiveSessions(active_sessions, user, s)
  /\ cache_count' = cache_count + 1
  /\ UNCHANGED <<has_history, messages_key, in_progress>>
  /\ UNCHANGED cacheFrame

\* POST /chat/ask on a session of the user, up to the call of the model:
\* get_or_create_session finds the row, get_or_load_context refreshes the
\* active-set or rebuilds the hash and the list from the history
chat_with_context_load(user, s) ==
  /\ cache_count < MaxCacheRequests
  /\ in_progress[s] = "none"
  /\ CacheSessionFound(s, user)
  /\ IF context_key[s]
       THEN UNCHANGED <<context_key, messages_key>>
       ELSE /\ context_key' = [context_key EXCEPT ![s] = TRUE]
            /\ messages_key' = [messages_key EXCEPT ![s] = has_history[s]]
  /\ active_sessions' = AddToActiveSessions(active_sessions, user, s)
  /\ in_progress' = [in_progress EXCEPT ![s] = "chat"]
  /\ cache_count' = cache_count + 1
  /\ UNCHANGED <<cache_sessions, has_history>>
  /\ UNCHANGED cacheFrame

\* the rest of POST /chat/ask: add_user_message, add_assistant_message,
\* update_active_session, then the two rows of the history
chat_with_context_update(s) ==
  /\ in_progress[s] = "chat"
  /\ context_key' = [context_key EXCEPT ![s] = TRUE]
  /\ messages_key' = [messages_key EXCEPT ![s] = TRUE]
  /\ active_sessions' =
       AddToActiveSessions(active_sessions, cache_sessions[s].user_id, s)
  /\ has_history' = [has_history EXCEPT ![s] = TRUE]
  /\ in_progress' = [in_progress EXCEPT ![s] = "none"]
  /\ UNCHANGED <<cache_sessions, cache_count>>
  /\ UNCHANGED cacheFrame

\* POST /chat/ask/stream on a session of the user, up to the streaming response:
\* the row is found, the list is read, the user row is saved
chat_stream_start(user, s) ==
  /\ cache_count < MaxCacheRequests
  /\ in_progress[s] = "none"
  /\ CacheSessionFound(s, user)
  /\ has_history' = [has_history EXCEPT ![s] = TRUE]
  /\ in_progress' = [in_progress EXCEPT ![s] = "stream"]
  /\ cache_count' = cache_count + 1
  /\ UNCHANGED <<cache_sessions, context_key, messages_key, active_sessions>>
  /\ UNCHANGED cacheFrame

\* finally_save at the end of the stream: the assistant row, add_assistant_message,
\* update_active_session
finally_save(s) ==
  /\ in_progress[s] = "stream"
  /\ has_history' = [has_history EXCEPT ![s] = TRUE]
  /\ context_key' = [context_key EXCEPT ![s] = TRUE]
  /\ messages_key' = [messages_key EXCEPT ![s] = TRUE]
  /\ active_sessions' =
       AddToActiveSessions(active_sessions, cache_sessions[s].user_id, s)
  /\ in_progress' = [in_progress EXCEPT ![s] = "none"]
  /\ UNCHANGED <<cache_sessions, cache_count>>
  /\ UNCHANGED cacheFrame

\* update_session with a status: archived clears the context and the active-set
update_session_status(user, s, status) ==
  /\ cache_count < MaxCacheRequests
  /\ CacheSessionFound(s, user)
  /\ cache_sessions' = [cache_sessions EXCEPT ![s].status = status]
  /\ IF status = "archived"
       THEN /\ context_key' = [context_key EXCEPT ![s] = FALSE]
            /\ messages_key' = [messages_key EXCEPT ![s] = FALSE]
            /\ active_sessions' = RemoveFromActiveSessions(active_sessions, user, s)
       ELSE UNCHANGED <<context_key, messages_key, active_sessions>>
  /\ cache_count' = cache_count + 1
  /\ UNCHANGED <<has_history, in_progress>>
  /\ UNCHANGED cacheFrame

\* delete_session: soft delete, clear_context, remove_from_active_sessions
session_deleted(user, s) ==
  /\ cache_count < MaxCacheRequests
  /\ CacheSessionFound(s, user)
  /\ cache_sessions' = [cache_sessions EXCEPT ![s].status = "deleted"]
  /\ context_key' = [context_key EXCEPT ![s] = FALSE]
  /\ messages_key' = [messages_key EXCEPT ![s] = FALSE]
  /\ active_sessions' = RemoveFromActiveSessions(active_sessions, user, s)
  /\ cache_count' = cache_count + 1
  /\ UNCHANGED <<has_history, in_progress>>
  /\ UNCHANGED cacheFrame

\* archive_inactive_sessions: every active session whose last message is older
\* than the threshold (inactive, any set of sessions) is archived and its context
\* cleared
archive_inactive_sessions(inactive) ==
  /\ cache_count < MaxCacheRequests
  /\ LET sessions_to_archive ==
           {s \in inactive : cache_sessions[s].status = "active"}
     IN  /\ cache_sessions' =
              [s \in CacheSessionIds |->
                 IF s \in sessions_to_archive
                   THEN [cache_sessions[s] EXCEPT !.status = "archived"]
                   ELSE cache_sessions[s]]
         /\ context_key' = [s \in CacheSessionIds |->
                              context_key[s] /\ s \notin sessions_to_archive]
         /\ messages_key' = [s \in CacheSessionIds |->
                               messages_key[s] /\ s \notin sessions_to_archive]
  /\ cache_count' = cache_count + 1
  /\ UNCHANGED <<has_history, active_sessions, in_progress>>
  /\ UNCHANGED cacheFrame

CacheNext ==
  \/ \E user \in Users : session_created(user)
  \/ \E user \in Users, s \in CacheSessionIds : chat_with_context_load(user, s)
  \/ \E s \in CacheSessionIds : chat_with_context_update(s)
  \/ \E user \in Users, s \in CacheSessionIds : chat_stream_start(user, s)
  \/ \E s \in CacheSessionIds : finally_save(s)
  \/ \E user \in Users, s \in CacheSessionIds, status \in {"active", "archived"} :
       update_session_status(user, s, status)
  \/ \E user \in Users, s \in CacheSessionIds : session_deleted(user, s)
  \/ \E inactive \in SUBSET CacheSessionIds : archive_inactive_sessions(inactive)

NoRequestInProgress == \A s \in CacheSessionIds : in_progress[s] = "none"

\* C29: whenever no request is in progress, a session whose status is archived or
\* deleted has neither context hash nor message list in the cache and is not in
\* its user's active-set
C29_ClosedSessionHasNoCache ==
  NoRequestInProgress =>
    \A s \in CacheSessionIds :
      cache_sessions[s].status \in {"archived", "deleted"} =>
        /\ ~context_key[s]
        /\ ~messages_key[s]
        /\ s \notin active_sessions[cache_sessions[s].user_id]

\* ============================================================ cache window
\* the message list of one session in the cache, a message taken by its sequence
\* number in the relational history; the calls on it come one after the other
\* the list LRANGE key 0 -1 returns turned round
Reversed(list) == [i \in 1 .. Len(list) |-> list[Len(list) + 1 - i]]

\* RedisClient.get_context_messages: the list, parsed and reversed
get_context_messages == Reversed(window_list)

\* messages[-max_messages:] of the history rows 1 .. n, in ascending order
RecentMessages(n) ==
  LET k == Min(n, 2 * MAX_CONTEXT_TURNS)
  IN [i \in 1 .. k |-> n - k + i]

\* the list after LPUSH of msgs[1], then msgs[2], ...: the last pushed is the head
RECURSIVE LPushAll(_, _)
LPushAll(list, msgs) ==
  IF msgs = <<>> THEN list ELSE LPushAll(<<Head(msgs)>> \o list, Tail(msgs))

\* a session with some history rows and nothing in the cache
WindowInit ==
  /\ window_rows \in 0 .. MaxRows
  /\ window_list = <<>>
  /\ window_turn_count = 0
  /\ window_origin = "none"

\* init_session_context for a session that has no history: the hash with
\* turn_count 0, no list
init_session_context ==
  /\ window_origin = "none"
  /\ window_rows = 0
  /\ window_origin' = "fresh"
  /\ window_turn_count' = 0
  /\ UNCHANGED <<window_rows, window_list>>
  /\ UNCHANGED windowFrame

\* get_or_load_context when the hash is gone and the session has history:
\* init_session_context, then load_context_from_history deletes the list and pushes
\* the recent messages, for msg in reversed(recent_messages)
load_context_from_history ==
  /\ window_origin = "none"
  /\ window_rows > 0
  /\ window_origin' = "rebuilt"
  /\ window_turn_count' = 0
  /\ window_list' = LPushAll(<<>>, Reversed(RecentMessages(window_rows)))
  /\ UNCHANGED window_rows
  /\ UNCHANGED windowFrame

\* one add_message of the next message of the session, from its LLEN to its EXEC
add_message ==
  /\ window_origin # "none"
  /\ window_rows < MaxRows
  /\ LET llen == Len(window_list)
     IN /\ window_list' = Pushed(window_list, window_rows + 1, llen)
        /\ window_turn_count' = Turns(llen)
  /\ window_rows' = window_rows + 1
  /\ UNCHANGED window_origin
  /\ UNCHANGED windowFrame

WindowNext ==
  \/ init_session_context
  \/ load_context_from_history
  \/ add_message

\* --------------------------------------------------------- claims: cache window
\* C31: a window rebuilt from a history of n messages is read back as the last
\* min(n, 2 * MAX_CONTEXT_TURNS) messages, oldest first, and stays the last messages
\* of the session when messages are added to it (the oldest is evicted).
C31_RebuiltWindow ==
  window_origin = "rebuilt" => get_context_messages = RecentMessages(window_rows)

CeilHalf(n) == (n + 1) \div 2

\* C32: after n add_message calls in a row on a fresh context the window is read back
\* as the last min(n, 2 * MAX_CONTEXT_TURNS) messages in the order added, and
\* turn_count is min(ceil(L / 2), MAX_CONTEXT_TURNS) for the window length L.
C32_SequentialAdds ==
  window_origin = "fresh" =>
    /\ get_context_messages = RecentMessages(window_rows)
    /\ window_turn_count = Min(CeilHalf(Len(window_list)), MAX_CONTEXT_TURNS)

\* ====================================================== knowledge base counters
\* the documents of one knowledge base and its counters, under vectorizer
\* completions and delete_document calls; a transaction reads what is committed and
\* its own writes
NoDocRow == [status |-> "none", chunk_count |-> 0]

NoCounts == [document_count |-> 0, total_chunks |-> 0]

RECURSIVE SumChunks(_, _)
SumChunks(rows, ds) ==
  IF ds = {} THEN 0
  ELSE LET d == CHOOSE x \in ds : TRUE
       IN rows[d].chunk_count + SumChunks(rows, ds \ {d})

\* select count(Document.id), sum(Document.chunk_count) where status = 'completed'
CompletedCounts(rows) ==
  LET completed == {d \in Docs : rows[d].status = "completed"}
  IN [document_count |-> Cardinality(completed),
      total_chunks |-> SumChunks(rows, completed)]

\* documents that are completed or being embedded, the counters as the last
\* recount left them
CountersInit ==
  /\ documents \in [Docs -> [status : {"embedding", "completed"},
                             chunk_count : 0 .. MaxDocChunks]]
  /\ \A d \in Docs :
       documents[d].chunk_count = 0 <=> documents[d].status = "embedding"
  /\ knowledge_counts = CompletedCounts(documents)
  /\ vectorizer_pc = [d \in Docs |->
                        IF documents[d].status = "embedding" THEN "stored" ELSE "none"]
  /\ deleter_pc = [d \in Docs |-> "none"]
  /\ counts_read = [d \in Docs |-> NoCounts]
  /\ chunks_len = [d \in Docs |-> 0]

\* process_chunks, part 3, up to the recount: the document is looked up; when it is
\* gone the stores are cleaned and the handler returns; else the row is set to
\* completed with len(chunks) and the counters are read in the same transaction
process_chunks_recount(d, n) ==
  /\ vectorizer_pc[d] = "stored"
  /\ chunks_len' = [chunks_len EXCEPT ![d] = n]
  /\ IF documents[d].status = "none"
       THEN /\ vectorizer_pc' = [vectorizer_pc EXCEPT ![d] = "done"]
            /\ UNCHANGED counts_read
       ELSE /\ vectorizer_pc' = [vectorizer_pc EXCEPT ![d] = "commit"]
            /\ counts_read' =
                 [counts_read EXCEPT
                    ![d] = CompletedCounts(
                             [documents EXCEPT
                                ![d] = [status |-> "completed", chunk_count |-> n]])]
  /\ UNCHANGED <<documents, knowledge_counts, deleter_pc>>
  /\ UNCHANGED countersFrame

\* process_chunks, part 3, the end: update Knowledge with the counts read, commit
process_chunks_commit(d) ==
  /\ vectorizer_pc[d] = "commit"
  /\ documents' = [documents EXCEPT
                     ![d] = [status |-> "completed", chunk_count |-> chunks_len[d]]]
  /\ knowledge_counts' = counts_read[d]
  /\ vectorizer_pc' = [vectorizer_pc EXCEPT ![d] = "done"]
  /\ UNCHANGED <<deleter_pc, counts_read, chunks_len>>
  /\ UNCHANGED countersFrame

\* delete_document, step 3: the row is deleted and the deletion committed; the row
\* is locked while a vectorizer has updated it and not yet committed
delete_document_commit(d) ==
  /\ deleter_pc[d] = "none"
  /\ documents[d].status # "none"
  /\ vectorizer_pc[d] # "commit"
  /\ documents' = [documents EXCEPT ![d] = NoDocRow]
  /\ deleter_pc' = [deleter_pc EXCEPT ![d] = "recount"]
  /\ UNCHANGED <<knowledge_counts, vectorizer_pc, counts_read, chunks_len>>
  /\ UNCHANGED countersFrame

\* delete_document, step 4: the counters are read
delete_document_recount(d) ==
  /\ deleter_pc[d] = "recount"
  /\ counts_read' = [counts_read EXCEPT ![d] = CompletedCounts(documents)]
  /\ deleter_pc' = [deleter_pc EXCEPT ![d] = "update"]
  /\ UNCHANGED <<documents, knowledge_counts, vectorizer_pc, chunks_len>>
  /\ UNCHANGED countersFrame

\* delete_document, step 4: update Knowledge with the counts read, commit
delete_document_update(d) ==
  /\ deleter_pc[d] = "update"
  /\ knowledge_counts' = counts_read[d]
  /\ deleter_pc' = [deleter_pc EXCEPT ![d] = "done"]
  /\ UNCHANGED <<documents, vectorizer_pc, counts_read, chunks_len>>
  /\ UNCHANGED countersFrame

CountersNext ==
  \/ \E d \in Docs, n \in 1 .. MaxDocChunks : process_chunks_recount(d, n)
  \/ \E d \in Docs : process_chunks_commit(d)
  \/ \E d \in Docs : delete_document_commit(d)
  \/ \E d \in Docs : delete_document_recount(d)
  \/ \E d \in Docs : delete_document_update(d)

\* ---------------------------------------------- claims: knowledge base counters
HandlersFinished ==
  \A d \in Docs : vectorizer_pc[d] \in {"none", "done"} /\ deleter_pc[d] \in {"none", "done"}

\* C34: once all ingestion and deletion handlers have finished, document_count is
\* the number of completed documents of the knowledge base and total_chunks the sum
\* of their chunk_count.
C34_CountersMatch ==
  HandlersFinished => knowledge_counts = CompletedCounts(documents)

\* ====================================================== access to knowledge bases
\* the users of this part have the role user; Robot.user_id is OwnerOf

\* no chunks were returned yet
NoAnswer == [to |-> 0, of |-> 0, endpoint |-> "none", knowledge_ids |-> {}]

\* the knowledge bases whose Knowledge.user_id is this user
OwnedBy(user) == {kb \in Kbs : knowledge_user_id[kb] = user}

\* RobotService.create_robot: 403 when a knowledge base of the request is not the
\* caller's
create_robot_allows(user, knowledge_ids) ==
  \A kb \in knowledge_ids : knowledge_user_id[kb] = user

\* the robots were created by create_robot, no recall task was started
AccessInit ==
  /\ knowledge_user_id \in [Kbs -> Users]
  /\ robot_knowledge_ids \in [Robots -> SUBSET Kbs]
  /\ \A b \in Robots : create_robot_allows(OwnerOf(b), robot_knowledge_ids[b])
  /\ recall_tasks = <<>>
  /\ answer = NoAnswer

\* the ids of the recall tasks of the cache
TaskIds == 1 .. Len(recall_tasks)

\* RobotService.get_robot_by_id: 403 unless the robot is the caller's
get_robot_by_id_allows(user, robot_id) == OwnerOf(robot_id) = user

\* RobotService.update_robot with knowledge_ids: the robot's links are deleted and
\* one link per requested id is added
update_robot(user, robot_id, knowledge_ids) ==
  /\ get_robot_by_id_allows(user, robot_id)
  /\ robot_knowledge_ids' = [robot_knowledge_ids EXCEPT ![robot_id] = knowledge_ids]
  /\ UNCHANGED <<knowledge_user_id, recall_tasks, answer>>
  /\ UNCHANGED accessFrame

\* the answer of a retrieval over a robot's knowledge bases
RobotAnswer(user, robot_id, endpoint, found) ==
  [to |-> user, of |-> OwnerOf(robot_id), endpoint |-> endpoint, knowledge_ids |-> found]

\* POST /ask and /ask/stream: get_robot_by_id, get_robot_knowledge_ids (400 when
\* there is none), retrieval: the chunks come from some of the robot's knowledge bases
chat_ask(user, robot_id) ==
  /\ get_robot_by_id_allows(user, robot_id)
  /\ robot_knowledge_ids[robot_id] # {}
  /\ \E found \in SUBSET robot_knowledge_ids[robot_id] :
       answer' = RobotAnswer(user, robot_id, "chat", found)
  /\ UNCHANGED <<knowledge_user_id, robot_knowledge_ids, recall_tasks>>
  /\ UNCHANGED accessFrame

\* POST /robots/{robot_id}/retrieval-test: get_robot_by_id, get_robot_knowledge_ids
\* (an empty answer when there is none), retrieval
robot_retrieval_test(user, robot_id) ==
  /\ get_robot_by_id_allows(user, robot_id)
  /\ robot_knowledge_ids[robot_id] # {}
  /\ \E found \in SUBSET robot_knowledge_ids[robot_id] :
       answer' = RobotAnswer(user, robot_id, "retrieval_test", found)
  /\ UNCHANGED <<knowledge_user_id, robot_knowledge_ids, recall_tasks>>
  /\ UNCHANGED accessFrame

\* POST /recall/test, RecallService.start_test: the task is stored with the caller's
\* id and the knowledge_ids of the request
start_recall_test(user, knowledge_ids) ==
  /\ Len(recall_tasks) < MaxRecallTasks
  /\ recall_tasks' = Append(recall_tasks, [user_id |-> user,
                                           knowledge_ids |-> knowledge_ids,
                                           finished |-> FALSE, results |-> {}])
  /\ UNCHANGED <<knowledge_user_id, robot_knowledge_ids, answer>>
  /\ UNCHANGED accessFrame

\* RecallService.run_recall_task: hybrid_retrieve over the knowledge_ids of the task
\* message; the retrieved chunks are stored as the results of the task
run_recall_task(task_id) ==
  /\ task_id \in TaskIds
  /\ ~recall_tasks[task_id].finished
  /\ \E found \in SUBSET recall_tasks[task_id].knowledge_ids :
       recall_tasks' = [recall_tasks EXCEPT ![task_id].finished = TRUE,
                                           ![task_id].results = found]
  /\ UNCHANGED <<knowledge_user_id, robot_knowledge_ids, answer>>
  /\ UNCHANGED accessFrame

\* GET /recall/status/{task_id}, RecallService.get_status: the stored results are
\* returned to the caller
get_recall_status(user, task_id) ==
  /\ task_id \in TaskIds
  /\ recall_tasks[task_id].finished
  /\ answer' = [to |-> user, of |-> recall_tasks[task_id].user_id,
                endpoint |-> "recall_status",
                knowledge_ids |-> recall_tasks[task_id].results]
  /\ UNCHANGED <<knowledge_user_id, robot_knowledge_ids, recall_tasks>>
  /\ UNCHANGED accessFrame

AccessNext ==
  \/ \E user \in Users, b \in Robots, ids \in SUBSET Kbs : update_robot(user, b, ids)
  \/ \E user \in Users, b \in Robots : chat_ask(user, b)
  \/ \E user \in Users, b \in Robots : robot_retrieval_test(user, b)
  \/ \E user \in Users, ids \in SUBSET Kbs : start_recall_test(user, ids)
  \/ \E t \in 1 .. MaxRecallTasks : run_recall_task(t)
  \/ \E user \in Users, t \in 1 .. MaxRecallTasks : get_recall_status(user, t)

\* ------------------------------------------- claims: access to knowledge bases
\* C38: every chunk returned to a user by a retrieval (chat, retrieval test, recall
\* test and its status poll) is of a knowledge base of that user: the links of a
\* robot and the knowledge_ids of a recall task are knowledge bases of their owner,
\* and the results of a recall task are read by its owner only.
C38_OnlyOwnChunks ==
  /\ \A kb \in answer.knowledge_ids : knowledge_user_id[kb] = answer.to
  /\ \A b \in Robots : robot_knowledge_ids[b] \subseteq OwnedBy(OwnerOf(b))
  /\ \A t \in TaskIds :
       recall_tasks[t].knowledge_ids \subseteq OwnedBy(recall_tasks[t].user_id)
  /\ answer.of = answer.to

\* ------------------------------------------------------------ specifications
IngestIdle ==
  /\ doc_exists = FALSE
  /\ doc_status = "none"
  /\ chunk_count = 0
  /\ file_chunks = 0
  /\ milvus = [i \in ChunkIdx |-> 0]
  /\ es = {}
  /\ topic = [t \in Topics |-> 0]
  /\ published = [t \in Topics |-> FALSE]
  /\ redelivered = 0
  /\ ppc = "idle" /\ spc = "idle" /\ vpc = "idle" /\ dpc = "idle"
  /\ uploaded = FALSE
  /\ retries = 0

ChatIdle ==
  /\ chat_history = <<>>
  /\ message_count = 0
  /\ cache_messages = <<>>
  /\ turn_count = 0
  /\ session_lock = FALSE
  /\ rkind = [r \in Requests |-> "unary"]
  /\ rpc = [r \in Requests |-> 0]
  /\ r_max_seq = [r \in Requests |-> 0]
  /\ r_llen = [r \in Requests |-> 0]
  /\ r_answer = [r \in Requests |-> "none"]
  /\ r_token_usage = [r \in Requests |-> NoUsage]

StreamIdle ==
  /\ n_contexts = 0
  /\ response_ok = TRUE
  /\ provider_lines = <<>>
  /\ stream_pc = "idle"
  /\ pos = 1
  /\ events = <<>>
  /\ has_reasoning_started = FALSE
  /\ has_text_started = FALSE
  /\ full_answer = 0
  /\ full_reasoning_content = FALSE

SessIdle ==
  /\ sessions = [s \in SessionIds |-> NoSession]
  /\ history_rows = [s \in SessionIds |-> 0]
  /\ context_len = [s \in SessionIds |-> 0]
  /\ robot_owner = [b \in Robots |-> 1]
  /\ response = NoResponse
  /\ n_calls = 0

FuseIdle ==
  /\ vector_hits = <<>>
  /\ keyword_hits = <<>>
  /\ top_k = 1
  /\ enable_rerank = FALSE
  /\ es_missing = {}
  /\ vector_results = <<>>
  /\ keyword_results = <<>>
  /\ leg_top_k = [vector |-> 0, keyword |-> 0]
  /\ contexts = <<>>
  /\ fuse_pc = "idle"

KbIdle ==
  /\ kb_status = [kb \in Kbs |-> 1]
  /\ robot_knowledge = {}
  /\ searched = {}
  /\ retrieval_by = "none"
  /\ n_retrievals = 0

MetricsIdle ==
  /\ queries_total = 1
  /\ retrieved = <<>>
  /\ expected_ids = {}
  /\ item = NoItem
  /\ hit_count = 0
  /\ n_measured = 0
  /\ summary = Frac(0, 1)
  /\ metrics_pc = "idle"

RecallIdle ==
  /\ rq_total = 1
  /\ task_exists = FALSE
  /\ task_status = "none"
  /\ task_progress = 0
  /\ rq_i = 0
  /\ upd_found = FALSE
  /\ cancelled = FALSE
  /\ missed = FALSE
  /\ recall_pc = "idle"
  /\ task_results = {}
  /\ task_summary = FALSE
  /\ task_error = FALSE
  /\ task_written = FALSE
  /\ recall_published = FALSE

RateIdle ==
  /\ rl_now = 0
  /\ rate_limiter = [u \in Users |-> <<>>]
  /\ rl_accepted = [u \in Users |-> <<>>]
  /\ rl_response = NoRateResponse
  /\ rl_count = 0

AuthIdle ==
  /\ auth_clock = 0
  /\ password_changed_at = NoTime
  /\ tokens = [k \in TokenIds |-> NoToken]
  /\ auth_response = NoAuthResponse

FailoverIdle ==
  /\ fo_module = "unloaded"
  /\ fo_pc = "off"
  /\ fo_call = NoCall
  /\ primary_calls = <<>>
  /\ fallback_calls = <<>>
  /\ primary_raised = FALSE
  /\ primary_sent = <<>>
  /\ fallback_sent = <<>>
  /\ received = <<>>
  /\ fo_result = "none"
  /\ fo_count = 0

MinimaxIdle ==
  /\ mm_pc = "off"
  /\ mm_outcomes = <<>>
  /\ mm_response = NoLLMResponse
  /\ mm_raised = FALSE
  /\ mm_count = 0

OpenAIIdle ==
  /\ oa_pc = "off"
  /\ oa_attempts = <<>>
  /\ oa_count = 0

RetryIdle ==
  /\ rd_row = [document_id |-> 1, file_path |-> "path", file_name |-> "name", knowledge_id |-> 1]
  /\ rd_status = "none"
  /\ rd_error_msg = "none"
  /\ rd_upload = <<>>
  /\ rd_reply = NoReply
  /\ rd_count = 0

KnowledgeIdle ==
  /\ knowledges = {}
  /\ kn_status = 0
  /\ split_with = NoSplit

SplitterIdle ==
  /\ ms_chunk_size = 2
  /\ ms_chunk_overlap = 0
  /\ ms_separator_len = 0
  /\ ms_splits = <<>>
  /\ current_chunk = <<>>
  /\ current_length = 0
  /\ final_chunks = <<>>
  /\ carried = <<>>
  /\ ms_pc = "off"

CacheIdle ==
  /\ cache_sessions = <<>>
  /\ has_history = <<>>
  /\ context_key = <<>>
  /\ messages_key = <<>>
  /\ active_sessions = <<>>
  /\ in_progress = <<>>
  /\ cache_count = 0

WindowIdle ==
  /\ window_rows = 0
  /\ window_list = <<>>
  /\ window_turn_count = 0
  /\ window_origin = "none"

CountersIdle ==
  /\ documents = <<>>
  /\ knowledge_counts = [document_count |-> 0, total_chunks |-> 0]
  /\ vectorizer_pc = <<>>
  /\ deleter_pc = <<>>
  /\ counts_read = <<>>
  /\ chunks_len = <<>>

AccessIdle ==
  /\ knowledge_user_id = [kb \in Kbs |-> 1]
  /\ robot_knowledge_ids = [b \in Robots |-> {}]
  /\ recall_tasks = <<>>
  /\ answer = NoAnswer

\* everything but the ingestion pipeline, the chat requests, the streaming response
RestIdle == SessIdle /\ FuseIdle /\ KbIdle /\ MetricsIdle /\ RecallIdle /\ RateIdle /\
  AuthIdle /\ FailoverIdle /\ MinimaxIdle /\ OpenAIIdle /\ RetryIdle /\ KnowledgeIdle /\
  SplitterIdle /\ CacheIdle /\ WindowIdle /\ CountersIdle /\ AccessIdle

\* the ingestion pipeline, the chat requests, the streaming response
CoreIdle == IngestIdle /\ ChatIdle /\ StreamIdle

\* the ingestion pipeline of one document
Init == ChatIdle /\ StreamIdle /\ RestIdle /\ IngestInit

Next == IngestNext

Spec == Init /\ [][Next]_vars

\* the ingestion pipeline with workers that keep running: each consumer loop takes
\* the next message of its topic and runs its handler to the end (consumer.py:32-37)
SpecLive ==
  Init /\ [][Next]_vars /\ WF_vars(process_upload) /\ WF_vars(process_parsed) /\
  WF_vars(process_chunks)

\* chat requests on one session
InitChat == IngestIdle /\ StreamIdle /\ RestIdle /\ ChatInit

SpecChat == InitChat /\ [][ChatNext]_vars

\* one streaming response
InitStream == IngestIdle /\ ChatIdle /\ RestIdle /\ StreamInit

SpecStream == InitStream /\ [][StreamNext]_vars

\* the session API of the chat router
InitSess == CoreIdle /\ FuseIdle /\ KbIdle /\ MetricsIdle /\ RecallIdle /\ RateIdle /\
  AuthIdle /\ FailoverIdle /\ MinimaxIdle /\ OpenAIIdle /\ RetryIdle /\ KnowledgeIdle /\
  SplitterIdle /\ CacheIdle /\ WindowIdle /\ CountersIdle /\ AccessIdle /\ SessInit

SpecSess == InitSess /\ [][SessNext]_vars

\* one hybrid retrieval
InitFuse == CoreIdle /\ SessIdle /\ KbIdle /\ MetricsIdle /\ RecallIdle /\ RateIdle /\
  AuthIdle /\ FailoverIdle /\ MinimaxIdle /\ OpenAIIdle /\ RetryIdle /\ KnowledgeIdle /\
  SplitterIdle /\ CacheIdle /\ WindowIdle /\ CountersIdle /\ AccessIdle /\ FuseInit

SpecFuse == InitFuse /\ [][FuseNext]_vars

\* the retrievals of the endpoints over the knowledge bases
InitKb == CoreIdle /\ SessIdle /\ FuseIdle /\ MetricsIdle /\ RecallIdle /\ RateIdle /\
  AuthIdle /\ FailoverIdle /\ MinimaxIdle /\ OpenAIIdle /\ RetryIdle /\ KnowledgeIdle /\
  SplitterIdle /\ CacheIdle /\ WindowIdle /\ CountersIdle /\ AccessIdle /\ KbInit

SpecKb == InitKb /\ [][KbNext]_vars

\* the metrics of one recall test
InitMetrics == CoreIdle /\ SessIdle /\ FuseIdle /\ KbIdle /\ RecallIdle /\ RateIdle /\
  AuthIdle /\ FailoverIdle /\ MinimaxIdle /\ OpenAIIdle /\ RetryIdle /\ KnowledgeIdle /\
  SplitterIdle /\ CacheIdle /\ WindowIdle /\ CountersIdle /\ AccessIdle /\ MetricsInit

SpecMetrics == InitMetrics /\ [][MetricsNext]_vars

\* the worker of one recall task, and the deletion of its key
InitRecall == CoreIdle /\ SessIdle /\ FuseIdle /\ KbIdle /\ MetricsIdle /\ RateIdle /\
  AuthIdle /\ FailoverIdle /\ MinimaxIdle /\ OpenAIIdle /\ RetryIdle /\ KnowledgeIdle /\
  SplitterIdle /\ CacheIdle /\ WindowIdle /\ CountersIdle /\ AccessIdle /\ RecallInit

SpecRecall == InitRecall /\ [][RecallNext]_vars

\* the rate limiter of the retrieval test
InitRate == CoreIdle /\ SessIdle /\ FuseIdle /\ KbIdle /\ MetricsIdle /\ RecallIdle /\
  AuthIdle /\ FailoverIdle /\ MinimaxIdle /\ OpenAIIdle /\ RetryIdle /\ KnowledgeIdle /\
  SplitterIdle /\ CacheIdle /\ WindowIdle /\ CountersIdle /\ AccessIdle /\ RateInit

SpecRate == InitRate /\ [][RateNext]_vars

\* logins, password changes and authenticated requests of one user
InitAuth == CoreIdle /\ SessIdle /\ FuseIdle /\ KbIdle /\ MetricsIdle /\ RecallIdle /\
  RateIdle /\ FailoverIdle /\ MinimaxIdle /\ OpenAIIdle /\ RetryIdle /\ KnowledgeIdle /\
  SplitterIdle /\ CacheIdle /\ WindowIdle /\ CountersIdle /\ AccessIdle /\ AuthInit

SpecAuth == InitAuth /\ [][AuthNext]_vars

\* calls on one FailoverProvider
InitFailover == CoreIdle /\ SessIdle /\ FuseIdle /\ KbIdle /\ MetricsIdle /\
  RecallIdle /\ RateIdle /\ AuthIdle /\ MinimaxIdle /\ OpenAIIdle /\ RetryIdle /\
  KnowledgeIdle /\ SplitterIdle /\ CacheIdle /\ WindowIdle /\ CountersIdle /\
  AccessIdle /\ FailoverInit

SpecFailover == InitFailover /\ [][FailoverNext]_vars

\* calls of MinimaxProvider.chat
InitMinimax == CoreIdle /\ SessIdle /\ FuseIdle /\ KbIdle /\ MetricsIdle /\
  RecallIdle /\ RateIdle /\ AuthIdle /\ FailoverIdle /\ OpenAIIdle /\ RetryIdle /\
  KnowledgeIdle /\ SplitterIdle /\ CacheIdle /\ WindowIdle /\ CountersIdle /\
  AccessIdle /\ MinimaxInit

SpecMinimax == InitMinimax /\ [][MinimaxNext]_vars

\* calls of the chat completion over HTTP
InitOpenAI == CoreIdle /\ SessIdle /\ FuseIdle /\ KbIdle /\ MetricsIdle /\ RecallIdle /\
  RateIdle /\ AuthIdle /\ FailoverIdle /\ MinimaxIdle /\ RetryIdle /\ KnowledgeIdle /\
  SplitterIdle /\ CacheIdle /\ WindowIdle /\ CountersIdle /\ AccessIdle /\ OpenAIInit

SpecOpenAI == InitOpenAI /\ [][OpenAINext]_vars

\* retries of one document
InitRetry == CoreIdle /\ SessIdle /\ FuseIdle /\ KbIdle /\ MetricsIdle /\ RecallIdle /\
  RateIdle /\ AuthIdle /\ FailoverIdle /\ MinimaxIdle /\ OpenAIIdle /\ KnowledgeIdle /\
  SplitterIdle /\ CacheIdle /\ WindowIdle /\ CountersIdle /\ AccessIdle /\ RetryInit

SpecRetry == InitRetry /\ [][RetryNext]_vars

\* creation of knowledge bases and the splitter's use of their values
InitKnowledge == CoreIdle /\ SessIdle /\ FuseIdle /\ KbIdle /\ MetricsIdle /\
  RecallIdle /\ RateIdle /\ AuthIdle /\ FailoverIdle /\ MinimaxIdle /\ OpenAIIdle /\
  RetryIdle /\ SplitterIdle /\ CacheIdle /\ WindowIdle /\ CountersIdle /\ AccessIdle /\
  KnowledgeInit

SpecKnowledge == InitKnowledge /\ [][KnowledgeNext]_vars

\* the merge step of the text splitter
InitSplitter == CoreIdle /\ SessIdle /\ FuseIdle /\ KbIdle /\ MetricsIdle /\
  RecallIdle /\ RateIdle /\ AuthIdle /\ FailoverIdle /\ MinimaxIdle /\ OpenAIIdle /\
  RetryIdle /\ KnowledgeIdle /\ CacheIdle /\ WindowIdle /\ CountersIdle /\ AccessIdle /\
  SplitterInit

SpecSplitter == InitSplitter /\ [][SplitterNext]_vars

\* the cache keys of sessions under chat requests, status changes and the archiving job
InitCache == CoreIdle /\ SessIdle /\ FuseIdle /\ KbIdle /\ MetricsIdle /\ RecallIdle /\
  RateIdle /\ AuthIdle /\ FailoverIdle /\ MinimaxIdle /\ OpenAIIdle /\ RetryIdle /\
  KnowledgeIdle /\ SplitterIdle /\ WindowIdle /\ CountersIdle /\ AccessIdle /\ CacheInit

SpecCache == InitCache /\ [][CacheNext]_vars

\* the cache window under sequential calls
InitWindow == CoreIdle /\ SessIdle /\ FuseIdle /\ KbIdle /\ MetricsIdle /\ RecallIdle /\
  RateIdle /\ AuthIdle /\ FailoverIdle /\ MinimaxIdle /\ OpenAIIdle /\ RetryIdle /\
  KnowledgeIdle /\ SplitterIdle /\ CacheIdle /\ CountersIdle /\ AccessIdle /\ WindowInit

SpecWindow == InitWindow /\ [][WindowNext]_vars

\* the counters of a knowledge base under vectorizer completions and deletions
InitCounters == CoreIdle /\ SessIdle /\ FuseIdle /\ KbIdle /\ MetricsIdle /\
  RecallIdle /\ RateIdle /\ AuthIdle /\ FailoverIdle /\ MinimaxIdle /\ OpenAIIdle /\
  RetryIdle /\ KnowledgeIdle /\ SplitterIdle /\ CacheIdle /\ WindowIdle /\ AccessIdle /\
  CountersInit

SpecCounters == InitCounters /\ [][CountersNext]_vars

\* access to knowledge bases through robots and recall tasks
InitAccess == CoreIdle /\ SessIdle /\ FuseIdle /\ KbIdle /\ MetricsIdle /\ RecallIdle /\
  RateIdle /\ AuthIdle /\ FailoverIdle /\ MinimaxIdle /\ OpenAIIdle /\ RetryIdle /\
  KnowledgeIdle /\ SplitterIdle /\ CacheIdle /\ WindowIdle /\ CountersIdle /\ AccessInit

SpecAccess == InitAccess /\ [][AccessNext]_vars

====
